---- MODULE Spec2Model ----
(***************************************************************************)
(* Model of the reliable-delivery core of octobus:                         *)
(*   - RedisQueue (src/src/http/provider.ts:280-422): fill, length,        *)
(*     requeue and work over a Redis list and a dead-letter hash;          *)
(*   - the JetStream consumer runner (src/unnamed/part_002:366-516):       *)
(*     Consumers.start, runSub, pullSmart, wrapHandler.                    *)
(* Every `await` of the source is an interleaving point: one action per    *)
(* stretch of code between two awaits.                                     *)
(***************************************************************************)
EXTENDS Integers, Sequences, FiniteSets, TLC

(***************************************************************************)
(* Bounds of the model.                                                    *)
(***************************************************************************)
MaxItems == 2
MaxParallelism == 2
MaxRetries == 1
MaxRequeues == 1
MaxMsgs == 5
MaxBatch == 2
\* Items passed to fill calls, refused calls included, in the fill histories.
MaxPassed == 4
\* Registered handlers, and messages published per subscription, in the model
\* of Consumers.start.
MaxHandlers == 2
MaxPub == 2
\* Characters of the topic, and of the stream and of the namespace, given to
\* durableName.
MaxTopicLen == 2
MaxNameLen == 1
\* Middleware of the group, and of the handler, of one registration.
MaxMw == 2
\* Calls of AmqpModule.forRoot.
MaxForRoot == 2
\* Decorated classes, decorated methods of one class, and Consumers objects
\* constructed in one process.
MaxClasses == 2
MaxMethods == 2
MaxInstances == 2

\* provider.ts:284  const JOB_POLL_RETRIES = 1;
JOB_POLL_RETRIES == 1

Items == 1..MaxItems
\* One drain loop per (poll attempt, index): work() starts `parallelism` loops
\* on every attempt of the poll runner, provider.ts:377.
Loops == (0..JOB_POLL_RETRIES) \X (1..MaxParallelism)
\* Enough backup keys for every copy of a payload that can exist at once.
Keys == 1..(MaxItems + (MaxRequeues + 1) * Cardinality(Loops))
NoJob == 0
\* Sequence numbers of the messages published to the stream.
Msgs == 1..MaxMsgs
NoMsg == 0

VARIABLES
    \* ---- configuration, fixed at construction / call time
    retries,        \* RedisQueue.retries (constructor argument)
    parallelism,    \* work()'s parallelism argument
    handlerPolicy,  \* what the handler f does: "ok", "retry", "error" or "free"
    \* ---- Redis
    queue,          \* the list `name`
    deadLetterHash, \* the hash `name:dead-letter`: backup key -> payload
    \* ---- work()
    wpc,            \* "idle", "round", "backoff", "returned"
    attempt,        \* attempt number of the poll runner
    lpc,            \* per loop: "idle","pop","backup","call","running","hdel","stopped"
    ldata,          \* per loop: the popped payload
    lkey,           \* per loop: bkpKey
    lattempt,       \* per loop: attempt number of the per-item runner
    \* ---- fill() and requeue() calls in progress
    fpc,            \* "idle", "push"
    fbatch,         \* the array passed to the fill call in progress
    fchunks,        \* the chunks the streamed source of the call has yet to yield
    nextItem,       \* next payload never passed to fill yet
    rqpc,           \* "idle", "exec"
    dead,           \* requeue's local `dead` (the hvals result)
    requeues,       \* number of requeue() calls made
    \* ---- history (observation only)
    calls,          \* per payload: number of handler invocations
    lcalls,         \* per loop: handler invocations for the popped item
    lres,           \* per loop: how the per-item runner ended ("ok", "exhausted")
    \* ---- history of the fill calls (observation only)
    fkind,          \* the latest fill call: "none", "array" or "stream"
    flen0,          \* the length that call read
    fsource,        \* the chunks passed to that call (an array is one chunk)
    fappended,      \* what that call has appended so far, in order
    fret,           \* what that call returned: "none" (not yet), "filled", "refused"
    passed,         \* number of items passed to fill calls so far
    accepted,       \* number of items passed to the calls that returned true
    \* ---- history of the requeue calls (observation only)
    rqret,          \* what the latest requeue returned: "none", "requeued", "nothing"
    \* ---- stream consumer: configuration
    batch,          \* cfg.batch_size
    chainPolicy,    \* what the handler chain does: "ok" or "free"
    \* ---- stream consumer: the broker's side of the durable pull consumer
    published,      \* messages published to the subject so far
    bstate,         \* per message: "none","new","outstanding","expired","acked"
    credit,         \* messages requested by pulls and not delivered yet
    \* ---- stream consumer: the client
    spc,            \* Consumers.start: "init", "started"
    inbox,          \* messages delivered to the subscription, not iterated yet
    rpc,            \* runSub: "off", "await", "handling"
    cur,            \* the event runSub is handling
    count,          \* pullSmart's counter
    \* ---- stream consumer: history (observation only)
    pulls,          \* number of sub.pull calls
    acks,           \* per message: number of event.ack() calls
    hcalls,         \* per message: number of handler invocations
    delivs,         \* per message: number of deliveries
    last,           \* per message: how its latest handling ended
    dlog,           \* the deliveries to the subscription, in order
    hlog,           \* the handler invocations of the subscription, in order
    nsettled,       \* number of invocations whose ack-or-leave decision is made
    \* ---- work(): the optional logger and what it was given (observation only)
    logger,         \* whether work() was called with a logger
    plog,           \* number of payloads logged before an invocation
    elog,           \* number of errors logged with their payload
    raw,            \* how the handler f itself settled the latest time
    given,          \* the form of the payload f was called with the latest time
    nerr,           \* number of errors other than the Retry Signal absorbed
    nerrlog,        \* number of those that were logged before
    \* ---- Consumers: what the constructor is given and the broker holds
    handlers,       \* parseHandlers' result: <<group_tag, handler_tag>> per handler
    upstream,       \* the streams that exist on the broker
    hung,           \* the topic whose handler never completes, if any
    \* ---- Consumers: the object
    streams,        \* this.streams, in insertion order
    subscribers,    \* the keys of this.subscribers, in insertion order
    \* ---- Consumers.start
    cpc,            \* "init", "check", "subscribe", "started", "failed"
    ci,             \* position of the first for loop in streams
    si,             \* position of the second for loop in subscribers
    conn,           \* the broker connection: "open" or "closed"
    \* ---- per topic: subscription, broker side and runner
    opened,         \* number of pullSubscribe calls
    firstPulls,     \* number of pulls issued by start
    tpulls,         \* number of pulls issued in all
    tcredit,        \* messages requested and not delivered yet
    tpub,           \* messages published so far
    tpend,          \* messages published and not delivered yet
    tinbox,         \* messages delivered and not iterated yet
    trpc,           \* the runSub of the topic: "off", "await", "handling"
    tcount,         \* the counter of the topic's pullSmart
    tacked,         \* messages acknowledged
    \* ---- durableName: one call
    dstream,        \* argument stream, a sequence of characters
    dnamespace,     \* argument namespace
    dtopic,         \* argument topic
    dname,          \* the returned name
    dpc,            \* "init", "done"
    \* ---- one handler with its middleware, and one invocation of its chain
    groupMw,        \* group_middleware, in declared order
    handlerMw,      \* handler_middleware, in declared order
    callsNext,      \* the middleware that call next
    chain,          \* the middleware list the constructor passes to collapse
    mpos,           \* number of members of the chain that have called next
    mtrace,         \* what was executed for the message, in order
    mpc,            \* "idle", "running", "done"
    \* ---- AmqpModule and AmqpWorker
    globalUrl,      \* AmqpModule.globalUrl
    nroot,          \* number of forRoot calls so far
    acall,          \* the latest call: <<operation, URL argument, noAck argument>>
    ares,           \* what the latest call produced: <<kind, URL, noAck>>
    \* ---- a second caller of fill on the same queue
    gpc,            \* "idle", "push": between its length() and its MULTI
    gbatch,         \* the array it was given
    \* ---- the handler chain as the handler of a subscription
    mevent,         \* the delivery the chain was last called with: <<message, call>>
    \* ---- which of the parsed handlers the subscriptions have called
    invoked,        \* positions in the parsed list
    \* ---- the decorators' metadata and the Consumers objects built from it
    groupMeta,      \* the metadata of Reflect under groupKey: None or Some(list)
    methodMeta,     \* per class, its metadata under handlerKey: None or Some(list)
    decl,           \* per class: None, or Some(<<tag, handler tags, objects built before>>)
    built,          \* number of Consumers objects constructed
    ihandlers,      \* per object, the list parseHandlers returned to it
    istreams,       \* per object, this.streams
    isubscribers    \* per object, the keys of this.subscribers

\* What is recorded about the fill calls and about the requeue calls.
fobs == <<fkind, flen0, fsource, fappended, fret, passed, accepted>>
robs == <<rqret>>

qvars == <<retries, parallelism, handlerPolicy, queue, deadLetterHash,
           wpc, attempt, lpc, ldata, lkey, lattempt, fpc, fbatch, fchunks, nextItem,
           rqpc, dead, requeues, calls, lcalls, lres, fobs, robs>>

svars == <<batch, chainPolicy, published, bstate, credit, spc, inbox, rpc, cur,
           count, pulls, acks, hcalls, delivs, last>>

\* What is recorded about the order of deliveries and invocations, and about
\* the logger.
sobs == <<dlog, hlog, nsettled>>
lobs == <<plog, elog, raw, given, nerr, nerrlog>>

\* The variables neither the queue nor the subscription runner touches.
cvars == <<handlers, upstream, hung, streams, subscribers, cpc, ci, si, conn,
           opened, firstPulls, tpulls, tcredit, tpub, tpend, tinbox, trpc, tcount,
           tacked>>

\* One call of durableName; one handler chain.
dvars == <<dstream, dnamespace, dtopic, dname, dpc>>
mvars == <<groupMw, handlerMw, callsNext, chain, mpos, mtrace, mpc>>

\* The event argument of the chain.
evars == <<mevent>>

\* What is recorded about the handlers the runners call.
iobs == <<invoked>>

\* The metadata store and the objects constructed from it.
rvars == <<groupMeta, methodMeta, decl, built, ihandlers, istreams, isubscribers>>

\* The second caller of fill.
gvars == <<gpc, gbatch>>

\* The AMQP module.
avars == <<globalUrl, nroot, acall, ares>>

zvars == <<logger, cvars, dvars, mvars, avars, gvars, evars, iobs, rvars>>

vars == <<qvars, svars, sobs, lobs, zvars>>

QInit ==
    /\ retries \in 0..MaxRetries
    /\ parallelism \in 1..MaxParallelism
    /\ handlerPolicy \in {"ok", "retry", "error", "free"}
    /\ queue = <<>>
    /\ deadLetterHash = [k \in Keys |-> NoJob]
    /\ wpc = "idle"
    /\ attempt = 0
    /\ lpc = [l \in Loops |-> "idle"]
    /\ ldata = [l \in Loops |-> NoJob]
    /\ lkey = [l \in Loops |-> 0]
    /\ lattempt = [l \in Loops |-> 0]
    /\ fpc = "idle"
    /\ fbatch = <<>>
    /\ nextItem = 1
    /\ rqpc = "idle"
    /\ dead = <<>>
    /\ requeues = 0
    /\ calls = [i \in Items |-> 0]
    /\ lcalls = [l \in Loops |-> 0]
    /\ lres = [l \in Loops |-> "none"]
    /\ fchunks = <<>>
    /\ fkind = "none"
    /\ flen0 = 0
    /\ fsource = <<>>
    /\ fappended = <<>>
    /\ fret = "none"
    /\ passed = 0
    /\ accepted = 0
    /\ rqret = "none"

(***************************************************************************)
(* Redis commands, as the source uses them.                                *)
(***************************************************************************)
\* Fields present in a hash.
HKeys(h) == {k \in Keys : h[k] # NoJob}

RECURSIVE ValsOf(_, _)
ValsOf(h, ks) ==
    IF ks = {} THEN <<>>
    ELSE LET k == CHOOSE x \in ks : \A y \in ks : x <= y
         IN <<h[k]>> \o ValsOf(h, ks \ {k})

\* redis.hvals(hash): the values of all fields.
HVals(h) == ValsOf(h, HKeys(h))

\* A backup that writes nothing.
HSet_skip(h, k, v) == h

\* redis.hset(hash, k, v)
HSet(h, k, v) == [h EXCEPT ![k] = v]

\* An hdel that deletes nothing.
HDel_skip(h, k) == h

\* redis.hdel(hash, k)
HDel(h, k) == [h EXCEPT ![k] = NoJob]

\* redis.del(hash)
Del(h) == [k \in Keys |-> NoJob]

\* A batch of which only the first command takes effect.
RPush_first(q, vs) == IF vs = <<>> THEN q ELSE Append(q, Head(vs))

\* redis.rpush(list, v1, ..., vn) in order
RPush(q, vs) == q \o vs

\* A read of the head that removes nothing (lindex in place of lpop).
LPopRest_keep(q) == q

\* redis.lpop(list): the list it leaves behind
LPopRest(q) == Tail(q)

\* redis.llen(list)
Length == Len(queue)

\* backupKey(): 16 random bytes in hex.  Two draws never collide in practice;
\* the model draws the least key that is neither a field of the hash nor held
\* by a loop.
HeldKeys == {lkey[l] : l \in {x \in Loops : lpc[x] \in {"backup", "call", "running", "hdel"}}}

backupKey == CHOOSE k \in Keys \ (HKeys(deadLetterHash) \cup HeldKeys) :
                \A j \in Keys \ (HKeys(deadLetterHash) \cup HeldKeys) : k <= j

(***************************************************************************)
(* retryOnRequest(maxAttempts, timeout, attemptFn) of ../retry, which is   *)
(* not part of the sources at hand: modelled from the specification        *)
(* (section 4.1).  Attempts are numbered from 0; a Retry Signal at attempt *)
(* n < maxAttempts waits and runs attempt n+1; at the final attempt the    *)
(* call returns normally; any other error propagates.                      *)
(***************************************************************************)
RunnerOnRetry(attemptNumber, maxAttempts) ==
    IF attemptNumber < maxAttempts THEN "again" ELSE "return"

(***************************************************************************)
(* RedisQueue.fill(ts), ts an array or an async generator of chunks        *)
(***************************************************************************)
\* A guard that refuses every source when work is left.
Refuses_any(length, isArray) == length > 0

\* A fill without the guard.
Refuses_never(length, isArray) == FALSE

\* if (length > 0 && Array.isArray(ts)) return false
Refuses(length, isArray) == length > 0 /\ isArray

\* const length = await this.length(); if (length > 0 && isArray) return false
FillRefuses == Refuses(Length, TRUE)

\* The array of one fill call: n payloads never used before.
FreshBatch(n) == [i \in 1..n |-> nextItem + i - 1]

FillCall(n) ==
    /\ fpc = "idle"
    /\ nextItem + n - 1 <= MaxItems
    /\ IF FillRefuses
         THEN UNCHANGED <<fpc, fbatch, nextItem>>
         ELSE /\ fpc' = "push"
              /\ fbatch' = FreshBatch(n)
              /\ nextItem' = nextItem + n
    /\ UNCHANGED <<svars, sobs, zvars, lobs, fchunks, robs>>
    /\ UNCHANGED <<retries, parallelism, handlerPolicy, queue, deadLetterHash,
                   wpc, attempt, lpc, ldata, lkey, lattempt, rqpc, dead, requeues,
                   calls, lcalls, lres>>

\* await this.redis.multi(instructions).exec(); return true
FillPush ==
    /\ fpc = "push"
    /\ queue' = RPush(queue, fbatch)
    /\ fpc' = "idle"
    /\ fbatch' = <<>>
    /\ UNCHANGED <<svars, sobs, zvars, lobs, fchunks, robs>>
    /\ UNCHANGED <<retries, parallelism, handlerPolicy, deadLetterHash,
                   wpc, attempt, lpc, ldata, lkey, lattempt, nextItem, rqpc, dead,
                   requeues, calls, lcalls, lres>>

\* Every way an async generator can cut the items into non-empty chunks.
RECURSIVE Chunkings(_)
Chunkings(items) ==
    IF items = <<>> THEN {<<>>}
    ELSE UNION {{<<SubSeq(items, 1, k)>> \o rest :
                    rest \in Chunkings(SubSeq(items, k + 1, Len(items)))} :
                 k \in 1..Len(items)}

\* fill(ts) with a generator: the length is read, the guard lets every
\* generator through, and the for await loop asks for the first chunk.
FillStreamCall(cs) ==
    /\ fpc = "idle"
    /\ \E n \in 1..MaxItems :
          /\ nextItem + n - 1 <= MaxItems
          /\ cs \in Chunkings(FreshBatch(n))
          /\ IF Refuses(Length, FALSE)
               THEN UNCHANGED <<fpc, fchunks, nextItem>>
               ELSE /\ fpc' = "stream"
                    /\ fchunks' = cs
                    /\ nextItem' = nextItem + n
    /\ UNCHANGED <<svars, sobs, zvars, lobs, fbatch, robs>>
    /\ UNCHANGED <<retries, parallelism, handlerPolicy, queue, deadLetterHash,
                   wpc, attempt, lpc, ldata, lkey, lattempt, rqpc, dead, requeues,
                   calls, lcalls, lres>>

\* for await (const chunk of ts) { await this.redis.multi(instructions).exec() }
\* one MULTI per chunk.
FillChunk ==
    /\ fpc = "stream"
    /\ fchunks # <<>>
    /\ queue' = RPush(queue, Head(fchunks))
    /\ fchunks' = Tail(fchunks)
    /\ UNCHANGED <<svars, sobs, zvars, lobs, fpc, fbatch, robs>>
    /\ UNCHANGED <<retries, parallelism, handlerPolicy, deadLetterHash,
                   wpc, attempt, lpc, ldata, lkey, lattempt, nextItem, rqpc, dead,
                   requeues, calls, lcalls, lres>>

\* The generator is done: return true.
FillStreamEnd ==
    /\ fpc = "stream"
    /\ fchunks = <<>>
    /\ fpc' = "idle"
    /\ UNCHANGED <<svars, sobs, zvars, lobs, fbatch, fchunks, robs>>
    /\ UNCHANGED <<retries, parallelism, handlerPolicy, queue, deadLetterHash,
                   wpc, attempt, lpc, ldata, lkey, lattempt, nextItem, rqpc, dead,
                   requeues, calls, lcalls, lres>>

\* The items of a sequence of chunks, in order.
RECURSIVE Flatten(_)
Flatten(cs) == IF cs = <<>> THEN <<>> ELSE Head(cs) \o Flatten(Tail(cs))

\* What is recorded when a fill call is made with the chunks src: the call
\* returned false if its first step was its last.
ObserveCall(kind, src) ==
    /\ fkind' = kind
    /\ flen0' = Length
    /\ fsource' = src
    /\ fappended' = <<>>
    /\ passed' = passed + Len(Flatten(src))
    /\ fret' = IF fpc' = "idle" THEN "refused" ELSE "none"
    /\ UNCHANGED accepted

\* What is recorded when a MULTI of a fill call has run: what the queue
\* gained, and `true` if the call returned with it.
ObservePush ==
    /\ fappended' = fappended \o SubSeq(queue', Len(queue) + 1, Len(queue'))
    /\ fret' = IF fpc' = "idle" THEN "filled" ELSE "none"
    /\ accepted' = IF fpc' = "idle" THEN accepted + Len(Flatten(fsource)) ELSE accepted
    /\ UNCHANGED <<fkind, flen0, fsource, passed>>

\* What is recorded when a streamed fill call returns true.
ObserveReturn ==
    /\ fret' = "filled"
    /\ accepted' = accepted + Len(Flatten(fsource))
    /\ UNCHANGED <<fkind, flen0, fsource, fappended, passed>>

(***************************************************************************)
(* RedisQueue.requeue()                                                    *)
(***************************************************************************)
\* A requeue that goes on to its MULTI whatever it read.
RequeueNothing_never(d) == FALSE

\* if (dead.length === 0) return false
RequeueNothing(d) == Len(d) = 0

\* const dead = await this.redis.hvals(...); if (dead.length === 0) return false
RequeueRead ==
    /\ rqpc = "idle"
    /\ requeues < MaxRequeues
    /\ requeues' = requeues + 1
    /\ IF RequeueNothing(HVals(deadLetterHash))
         THEN UNCHANGED <<rqpc, dead>>
         ELSE /\ dead' = HVals(deadLetterHash)
              /\ rqpc' = "exec"
    /\ UNCHANGED <<svars, sobs, zvars, lobs, fchunks, fobs>>
    /\ UNCHANGED <<retries, parallelism, handlerPolicy, queue, deadLetterHash,
                   wpc, attempt, lpc, ldata, lkey, lattempt, fpc, fbatch, nextItem,
                   calls, lcalls, lres>>

\* The MULTI of requeue: del the hash, then rpush every value read before.
RequeueHash(h) == Del(h)

RequeueExec ==
    /\ rqpc = "exec"
    /\ deadLetterHash' = RequeueHash(deadLetterHash)
    /\ queue' = RPush(queue, dead)
    /\ rqpc' = "idle"
    /\ dead' = <<>>
    /\ UNCHANGED <<svars, sobs, zvars, lobs, fchunks, fobs>>
    /\ UNCHANGED <<retries, parallelism, handlerPolicy,
                   wpc, attempt, lpc, ldata, lkey, lattempt, fpc, fbatch, nextItem,
                   requeues, calls, lcalls, lres>>

\* What is recorded about a requeue call: it returned false if its first step
\* was its last, true once its MULTI has run.
ObserveRequeueRead == rqret' = IF rqpc' = "idle" THEN "nothing" ELSE "none"

ObserveRequeueExec == rqret' = "requeued"

(***************************************************************************)
(* RedisQueue.work(f, logger, parallelism)                                 *)
(***************************************************************************)
\* Array.from({ length: parallelism }).map(async () => { while (true) { ...lpop
Spawn(a) ==
    [l \in Loops |-> IF l[1] = a /\ l[2] <= parallelism THEN "pop" ELSE lpc[l]]

WorkStart ==
    /\ wpc = "idle"
    /\ wpc' = "round"
    /\ attempt' = 0
    /\ lpc' = Spawn(0)
    /\ UNCHANGED <<svars, sobs, zvars, lobs, fchunks, fobs, robs>>
    /\ UNCHANGED <<retries, parallelism, handlerPolicy, queue, deadLetterHash,
                   ldata, lkey, lattempt, fpc, fbatch, nextItem, rqpc, dead,
                   requeues, calls, lcalls, lres>>

\* A catch that returns on the first empty poll.
PollAfterEmpty_first(a) == "returned"

\* catch (error) { if (error instanceof RetryError && attempt >= JOB_POLL_RETRIES)
\*   return; throw error; }   and what the poll runner does with the rethrown
\* Retry Signal.
PollAfterEmpty(a) ==
    IF a >= JOB_POLL_RETRIES THEN "returned"
    ELSE IF RunnerOnRetry(a, JOB_POLL_RETRIES) = "again" THEN "backoff"
    ELSE "returned"

\* const data = await this.redis.lpop(this.name); if (!data) throw new RetryError()
\* Promise.all rejects with the first loop of the running attempt that throws.
LoopPop(l) ==
    /\ lpc[l] = "pop"
    /\ IF queue = <<>>
         THEN /\ lpc' = [lpc EXCEPT ![l] = "stopped"]
              /\ wpc' = IF wpc = "round" /\ l[1] = attempt
                          THEN PollAfterEmpty(attempt) ELSE wpc
              /\ UNCHANGED <<queue, ldata, lkey>>
         ELSE /\ ldata' = [ldata EXCEPT ![l] = Head(queue)]
              /\ queue' = LPopRest(queue)
              /\ lkey' = [lkey EXCEPT ![l] = backupKey]
              /\ lpc' = [lpc EXCEPT ![l] = "backup"]
              /\ UNCHANGED wpc
    /\ UNCHANGED <<svars, sobs, zvars, lobs, fchunks, fobs, robs>>
    /\ UNCHANGED <<retries, parallelism, handlerPolicy, deadLetterHash,
                   attempt, lattempt, fpc, fbatch, nextItem, rqpc, dead,
                   requeues, calls, lcalls, lres>>

\* await this.redis.hset(this.deadLetterHash, bkpKey, data);
LoopBackup(l) ==
    /\ lpc[l] = "backup"
    /\ deadLetterHash' = HSet(deadLetterHash, lkey[l], ldata[l])
    /\ lpc' = [lpc EXCEPT ![l] = "call"]
    /\ UNCHANGED <<svars, sobs, zvars, lobs, fchunks, fobs, robs>>
    /\ UNCHANGED <<retries, parallelism, handlerPolicy, queue,
                   wpc, attempt, ldata, lkey, lattempt, fpc, fbatch, nextItem, rqpc,
                   dead, requeues, calls, lcalls, lres>>

\* retryOnRequest(this.retries, this.timeout, () => handler(data)): one attempt
\* starts (the first, or the next after the backoff wait).
LoopInvoke(l) ==
    /\ lpc[l] = "call"
    /\ lpc' = [lpc EXCEPT ![l] = "running"]
    /\ calls' = [calls EXCEPT ![ldata[l]] = @ + 1]
    /\ lcalls' = [lcalls EXCEPT ![l] = @ + 1]
    /\ UNCHANGED <<svars, sobs, zvars, fchunks, fobs, robs>>
    /\ UNCHANGED <<retries, parallelism, handlerPolicy, queue, deadLetterHash,
                   wpc, attempt, ldata, lkey, lattempt, fpc, fbatch, nextItem,
                   rqpc, dead, requeues, lres>>

\* A loop that ends after its first item.
NextIteration_stop == "stopped"

\* while (true): when it is through with an item, by hdel or by the catch, the
\* loop pops again.
NextIteration == "pop"

\* What the handler may do under the policy of the behaviour.
Outcomes == IF handlerPolicy = "free" THEN {"ok", "retry", "error"} ELSE {handlerPolicy}

\* The poll budget passed where the queue's own retry count belongs.
HandlerMaxAttempts_poll == JOB_POLL_RETRIES

\* The first argument of the per-item runner, provider.ts:389.
HandlerMaxAttempts == retries

\* The handler settles.  Resolved: the runner resolves and the loop goes on to
\* hdel.  Retry Signal: the runner waits and tries again or, at the final
\* attempt, returns.  Any other error: the runner rejects and `catch (err)`
\* swallows it, the loop goes to its next iteration.
LoopSettle(l, o) ==
    /\ lpc[l] = "running"
    /\ o \in Outcomes
    /\ CASE o = "ok" ->
              /\ lpc' = [lpc EXCEPT ![l] = "hdel"]
              /\ lres' = [lres EXCEPT ![l] = "ok"]
              /\ UNCHANGED <<ldata, lkey, lattempt, lcalls>>
         [] o = "retry" /\ RunnerOnRetry(lattempt[l], HandlerMaxAttempts) = "again" ->
              /\ lpc' = [lpc EXCEPT ![l] = "call"]
              /\ lattempt' = [lattempt EXCEPT ![l] = @ + 1]
              /\ UNCHANGED <<ldata, lkey, lcalls, lres>>
         [] o = "retry" /\ RunnerOnRetry(lattempt[l], HandlerMaxAttempts) = "return" ->
              /\ lpc' = [lpc EXCEPT ![l] = "hdel"]
              /\ lres' = [lres EXCEPT ![l] = "exhausted"]
              /\ UNCHANGED <<ldata, lkey, lattempt, lcalls>>
         [] o = "error" ->
              /\ lpc' = [lpc EXCEPT ![l] = NextIteration]
              /\ ldata' = [ldata EXCEPT ![l] = NoJob]
              /\ lkey' = [lkey EXCEPT ![l] = 0]
              /\ lattempt' = [lattempt EXCEPT ![l] = 0]
              /\ lcalls' = [lcalls EXCEPT ![l] = 0]
              /\ UNCHANGED lres
    /\ UNCHANGED <<svars, sobs, zvars, fchunks, fobs, robs>>
    /\ UNCHANGED <<retries, parallelism, handlerPolicy, queue, deadLetterHash,
                   wpc, attempt, fpc, fbatch, nextItem, rqpc, dead,
                   requeues, calls>>

\* await this.redis.hdel(this.deadLetterHash, bkpKey);  then the next iteration
\* of while (true), with fresh locals.
LoopHdel(l) ==
    /\ lpc[l] = "hdel"
    /\ deadLetterHash' = HDel(deadLetterHash, lkey[l])
    /\ lpc' = [lpc EXCEPT ![l] = NextIteration]
    /\ ldata' = [ldata EXCEPT ![l] = NoJob]
    /\ lkey' = [lkey EXCEPT ![l] = 0]
    /\ lattempt' = [lattempt EXCEPT ![l] = 0]
    /\ lcalls' = [lcalls EXCEPT ![l] = 0]
    /\ lres' = [lres EXCEPT ![l] = "none"]
    /\ UNCHANGED <<svars, sobs, zvars, lobs, fchunks, fobs, robs>>
    /\ UNCHANGED <<retries, parallelism, handlerPolicy, queue,
                   wpc, attempt, fpc, fbatch, nextItem,
                   rqpc, dead, requeues, calls>>

\* The poll runner's backoff (JOB_POLL_TIMEOUT) is over: the next attempt
\* starts `parallelism` new loops.
WorkPoll ==
    /\ wpc = "backoff"
    /\ wpc' = "round"
    /\ attempt' = attempt + 1
    /\ lpc' = Spawn(attempt + 1)
    /\ UNCHANGED <<svars, sobs, zvars, lobs, fchunks, fobs, robs>>
    /\ UNCHANGED <<retries, parallelism, handlerPolicy, queue, deadLetterHash,
                   ldata, lkey, lattempt, fpc, fbatch, nextItem, rqpc, dead,
                   requeues, calls, lcalls, lres>>

QNext ==
    \/ \E n \in 1..MaxItems : FillCall(n) /\ UNCHANGED fobs
    \/ FillPush /\ UNCHANGED fobs
    \/ RequeueRead /\ UNCHANGED robs
    \/ RequeueExec /\ UNCHANGED robs
    \/ WorkStart
    \/ WorkPoll
    \/ \E l \in Loops : LoopPop(l)
    \/ \E l \in Loops : LoopBackup(l)
    \/ \E l \in Loops : LoopInvoke(l) /\ UNCHANGED lobs
    \/ \E l \in Loops, o \in {"ok", "retry", "error"} : LoopSettle(l, o) /\ UNCHANGED lobs
    \/ \E l \in Loops : LoopHdel(l)

(***************************************************************************)
(* The stream broker, as far as the consumer runner depends on it: a       *)
(* durable pull consumer with explicit acks (part_002:399-407).  It        *)
(* delivers a message only against an outstanding pull request, new        *)
(* messages in stream order, and makes a delivered message eligible for    *)
(* redelivery when ack-wait passes without an ack.  Ack-wait is taken to   *)
(* exceed the time a delivered message waits for and spends in its         *)
(* handler: a message expires only after the runner is through with it.    *)
(***************************************************************************)
SInit ==
    /\ batch \in 1..MaxBatch
    /\ chainPolicy \in {"ok", "free"}
    /\ published = 0
    /\ bstate = [m \in Msgs |-> "none"]
    /\ credit = 0
    /\ spc = "init"
    /\ inbox = <<>>
    /\ rpc = "off"
    /\ cur = NoMsg
    /\ count = 0
    /\ pulls = 0
    /\ acks = [m \in Msgs |-> 0]
    /\ hcalls = [m \in Msgs |-> 0]
    /\ delivs = [m \in Msgs |-> 0]
    /\ last = [m \in Msgs |-> "none"]

\* No consumer is configured: the stream side at rest.
SOff ==
    /\ batch = 1
    /\ chainPolicy = "ok"
    /\ published = 0
    /\ bstate = [m \in Msgs |-> "none"]
    /\ credit = 0
    /\ spc = "init"
    /\ inbox = <<>>
    /\ rpc = "off"
    /\ cur = NoMsg
    /\ count = 0
    /\ pulls = 0
    /\ acks = [m \in Msgs |-> 0]
    /\ hcalls = [m \in Msgs |-> 0]
    /\ delivs = [m \in Msgs |-> 0]
    /\ last = [m \in Msgs |-> "none"]

\* No queue is in use: the queue side at rest.
QOff ==
    /\ retries = 0
    /\ parallelism = 1
    /\ handlerPolicy = "ok"
    /\ queue = <<>>
    /\ deadLetterHash = [k \in Keys |-> NoJob]
    /\ wpc = "idle"
    /\ attempt = 0
    /\ lpc = [l \in Loops |-> "idle"]
    /\ ldata = [l \in Loops |-> NoJob]
    /\ lkey = [l \in Loops |-> 0]
    /\ lattempt = [l \in Loops |-> 0]
    /\ fpc = "idle"
    /\ fbatch = <<>>
    /\ nextItem = 1
    /\ rqpc = "idle"
    /\ dead = <<>>
    /\ requeues = 0
    /\ calls = [i \in Items |-> 0]
    /\ lcalls = [l \in Loops |-> 0]
    /\ lres = [l \in Loops |-> "none"]
    /\ fchunks = <<>>
    /\ fkind = "none"
    /\ flen0 = 0
    /\ fsource = <<>>
    /\ fappended = <<>>
    /\ fret = "none"
    /\ passed = 0
    /\ accepted = 0
    /\ rqret = "none"

InInbox(m) == \E i \in 1..Len(inbox) : inbox[i] = m

\* Stream.add / client.publish: the next message enters the stream.  The
\* consumer delivers new messages only (opts.deliverNew), so only messages
\* published after the subscription exists are modelled.
Publish ==
    /\ spc = "started"
    /\ published < MaxMsgs
    /\ published' = published + 1
    /\ bstate' = [bstate EXCEPT ![published + 1] = "new"]
    /\ UNCHANGED <<qvars, lobs, zvars>>
    /\ UNCHANGED <<batch, chainPolicy, credit, spc, inbox, rpc, cur, count, pulls,
                   acks, hcalls, delivs, last>>

\* The broker may deliver m: a redelivery, or the oldest message never delivered.
Deliverable(m) ==
    \/ bstate[m] = "expired"
    \/ bstate[m] = "new" /\ \A j \in Msgs : bstate[j] = "new" => m <= j

BrokerDeliver(m) ==
    /\ credit > 0
    /\ Deliverable(m)
    /\ credit' = credit - 1
    /\ bstate' = [bstate EXCEPT ![m] = "outstanding"]
    /\ inbox' = Append(inbox, m)
    /\ delivs' = [delivs EXCEPT ![m] = @ + 1]
    /\ UNCHANGED <<qvars, lobs, zvars>>
    /\ UNCHANGED <<batch, chainPolicy, published, spc, rpc, cur, count, pulls,
                   acks, hcalls, last>>

\* opts.ackWait(ms(cfg.timeout)) has passed for a delivery that was not acked.
AckWaitExpire(m) ==
    /\ bstate[m] = "outstanding"
    /\ cur # m
    /\ ~InInbox(m)
    /\ bstate' = [bstate EXCEPT ![m] = "expired"]
    /\ UNCHANGED <<qvars, lobs, zvars>>
    /\ UNCHANGED <<batch, chainPolicy, published, credit, spc, inbox, rpc, cur, count,
                   pulls, acks, hcalls, delivs, last>>

(***************************************************************************)
(* Consumers.start for one (group, subject) subscription                   *)
(***************************************************************************)
\* const sub = await client.pullSubscribe(topic, opts);
\* const done = pullSmart(cfg.batch_size, sub);
\* runSub(sub, wrapHandler(topic, logger, handler), done);
\* sub.pull({ batch: cfg.batch_size });
Start ==
    /\ spc = "init"
    /\ spc' = "started"
    /\ count' = 0
    /\ rpc' = "await"
    /\ credit' = credit + batch
    /\ pulls' = pulls + 1
    /\ UNCHANGED <<qvars, lobs, zvars>>
    /\ UNCHANGED <<batch, chainPolicy, published, bstate, inbox, cur, acks, hcalls,
                   delivs, last>>

\* An iteration that yields the latest delivery first.
NextEvent_latest(ib) == ib[Len(ib)]

\* for await (const event of sub): the subscription yields its deliveries in
\* the order they arrived.
NextEvent(ib) == Head(ib)

\* for await (const event of sub) { try { await handler(event);
RunSubTake ==
    /\ rpc = "await"
    /\ inbox # <<>>
    /\ cur' = NextEvent(inbox)
    /\ inbox' = SelectSeq(inbox, LAMBDA m : m # NextEvent(inbox))
    /\ rpc' = "handling"
    /\ hcalls' = [hcalls EXCEPT ![NextEvent(inbox)] = @ + 1]
    /\ UNCHANGED <<qvars, lobs, zvars>>
    /\ UNCHANGED <<batch, chainPolicy, published, bstate, credit, spc, count, pulls,
                   acks, delivs, last>>

\* What the handler chain may do under the policy of the behaviour.
ChainOutcomes == IF chainPolicy = "free" THEN {"ok", "retry", "error"} ELSE {chainPolicy}

\* A runner that acks only what was handled without an error.
RunSubAcks_okOnly(o) == o = "ok"

\* runSub: event.ack() is called after the handler resolved, and in the catch
\* for every error that is not a RetryError.
RunSubAcks(o) == o = "ok" \/ (o # "ok" /\ o # "retry")

\* A runner that counts every handled message, retried ones included.
RunSubDone_always(o) == TRUE

\* runSub: done() is called wherever event.ack() is.
RunSubDone(o) == o = "ok" \/ (o # "ok" /\ o # "retry")

\* A window that refills one message late.
PullDue_late(c) == c = batch + 1

\* pullSmart: count++; if (count === batch) { count = 0; sub.pull({ batch }) }
PullDue(c) == c = batch

\* The handler chain settles: ack and done() as runSub decides, then the loop
\* awaits the next event.
RunSubSettle(o) ==
    /\ rpc = "handling"
    /\ o \in ChainOutcomes
    /\ IF RunSubAcks(o)
         THEN /\ bstate' = [bstate EXCEPT ![cur] = "acked"]
              /\ acks' = [acks EXCEPT ![cur] = @ + 1]
         ELSE UNCHANGED <<bstate, acks>>
    /\ IF RunSubDone(o)
         THEN IF PullDue(count + 1)
                THEN /\ count' = 0
                     /\ credit' = credit + batch
                     /\ pulls' = pulls + 1
                ELSE /\ count' = count + 1
                     /\ UNCHANGED <<credit, pulls>>
         ELSE UNCHANGED <<count, credit, pulls>>
    /\ last' = [last EXCEPT ![cur] = o]
    /\ rpc' = "await"
    /\ cur' = NoMsg
    /\ UNCHANGED <<qvars, lobs, zvars>>
    /\ UNCHANGED <<batch, chainPolicy, published, spc, inbox, hcalls, delivs>>

StreamNext ==
    \/ Start /\ UNCHANGED sobs
    \/ Publish /\ UNCHANGED sobs
    \/ \E m \in Msgs : BrokerDeliver(m) /\ UNCHANGED sobs
    \/ \E m \in Msgs : AckWaitExpire(m) /\ UNCHANGED sobs
    \/ RunSubTake /\ UNCHANGED sobs
    \/ \E o \in {"ok", "retry", "error"} : RunSubSettle(o) /\ UNCHANGED sobs

(***************************************************************************)
(* Consumers (part_002:366-417): the registry the constructor builds and   *)
(* start() over several subscriptions.  A topic is the pair of a group tag *)
(* (the stream name, letters only) and a handler tag; the key              *)
(* `${group_tag}.${handler_tag}` of this.subscribers determines the pair.  *)
(* Per topic the broker and the runner are kept as counters; the order of  *)
(* deliveries and redelivery are modelled for one subscription above.      *)
(***************************************************************************)
Groups == {"a", "b"}
Subjects == {"x", "y"}
Topics == Groups \X Subjects
NoTopic == <<"", "">>

\* The lists of handlers parseHandlers can return.
HandlerLists == UNION {[1..n -> Topics] : n \in 1..MaxHandlers}

\* The distinct elements of a sequence, each at its first position: the
\* iteration order of a Set and of the keys of a Map.
RECURSIVE KeysInOrder(_)
KeysInOrder(seq) ==
    IF seq = <<>> THEN <<>>
    ELSE LET front == KeysInOrder(SubSeq(seq, 1, Len(seq) - 1))
             x == seq[Len(seq)]
         IN IF \E i \in 1..Len(front) : front[i] = x THEN front ELSE Append(front, x)

\* this.streams.add(group_tag) for every handler
StreamsOf(hs) == KeysInOrder([i \in 1..Len(hs) |-> hs[i][1]])

\* A registry that keeps one entry per handler.
SubscribersOf_all(hs) == hs

\* this.subscribers.set(`${group_tag}.${handler_tag}`, ...) for every handler
SubscribersOf(hs) == KeysInOrder(hs)

\* The state of the per-topic variables before start().
TopicsIdle ==
    /\ opened = [t \in Topics |-> 0]
    /\ firstPulls = [t \in Topics |-> 0]
    /\ tpulls = [t \in Topics |-> 0]
    /\ tcredit = [t \in Topics |-> 0]
    /\ tpub = [t \in Topics |-> 0]
    /\ tpend = [t \in Topics |-> 0]
    /\ tinbox = [t \in Topics |-> 0]
    /\ trpc = [t \in Topics |-> "off"]
    /\ tcount = [t \in Topics |-> 0]
    /\ tacked = [t \in Topics |-> 0]

\* new Consumers(moduleRef) for the handlers hs.
Constructed(hs) ==
    /\ handlers = hs
    /\ streams = StreamsOf(hs)
    /\ subscribers = SubscribersOf(hs)
    /\ cpc = "init"
    /\ ci = 1
    /\ si = 1
    /\ conn = "open"
    /\ TopicsIdle

\* No Consumers object is in use.
COff ==
    /\ handlers = <<>>
    /\ upstream = {}
    /\ hung = NoTopic
    /\ streams = <<>>
    /\ subscribers = <<>>
    /\ cpc = "init"
    /\ ci = 1
    /\ si = 1
    /\ conn = "open"
    /\ TopicsIdle

\* What start() and the runners leave alone.
outside == <<qvars, sobs, lobs, logger, rvars, evars, gvars, avars, dvars, mvars, published, bstate, credit, spc, inbox, rpc,
             cur, count, pulls, acks, hcalls, delivs, last, batch, chainPolicy>>

\* const manager = await nats.jetstreamManager(); const client = nats.jetstream();
StartManager ==
    /\ cpc = "init"
    /\ handlers # <<>>
    /\ cpc' = "check"
    /\ UNCHANGED outside
    /\ UNCHANGED <<handlers, upstream, hung, streams, subscribers, ci, si, conn,
                   opened, firstPulls, tpulls, tcredit, tpub, tpend, tinbox, trpc,
                   tcount, tacked>>

\* A lookup whose result start() does not wait for.
MissingFails_never(st) == FALSE

\* await manager.streams.info(stream) rejects for a stream the broker does not
\* have.
MissingFails(st) == st \notin upstream

\* for (const stream of this.streams) { await manager.streams.info(stream); }
StartCheck ==
    /\ cpc = "check"
    /\ IF MissingFails(streams[ci])
         THEN cpc' = "failed" /\ UNCHANGED ci
         ELSE /\ ci' = ci + 1
              /\ cpc' = IF ci = Len(streams) THEN "subscribe" ELSE "check"
    /\ UNCHANGED outside
    /\ UNCHANGED <<handlers, upstream, hung, streams, subscribers, si, conn,
                   opened, firstPulls, tpulls, tcredit, tpub, tpend, tinbox, trpc,
                   tcount, tacked>>

\* One round of the second loop: const sub = await client.pullSubscribe(...);
\* const done = pullSmart(...); runSub(...) is started and not awaited;
\* sub.pull({ batch: cfg.batch_size }).
StartSubscribe ==
    /\ cpc = "subscribe"
    /\ conn = "open"
    /\ LET t == subscribers[si] IN
          /\ opened' = [opened EXCEPT ![t] = @ + 1]
          /\ trpc' = [trpc EXCEPT ![t] = "await"]
          /\ tcount' = [tcount EXCEPT ![t] = 0]
          /\ tcredit' = [tcredit EXCEPT ![t] = @ + batch]
          /\ tpulls' = [tpulls EXCEPT ![t] = @ + 1]
          /\ firstPulls' = [firstPulls EXCEPT ![t] = @ + 1]
    /\ si' = si + 1
    /\ cpc' = IF si = Len(subscribers) THEN "started" ELSE "subscribe"
    /\ UNCHANGED outside
    /\ UNCHANGED <<handlers, upstream, hung, streams, subscribers, ci, conn,
                   tpub, tpend, tinbox, tacked>>

\* Stream.add on a subject of the topic; the consumer delivers new messages
\* only.
SubPublish(t) ==
    /\ conn = "open"
    /\ trpc[t] # "off"
    /\ tpub[t] < MaxPub
    /\ tpub' = [tpub EXCEPT ![t] = @ + 1]
    /\ tpend' = [tpend EXCEPT ![t] = @ + 1]
    /\ UNCHANGED outside
    /\ UNCHANGED <<handlers, upstream, hung, streams, subscribers, cpc, ci, si, conn,
                   opened, firstPulls, tpulls, tcredit, tinbox, trpc, tcount, tacked>>

\* The broker delivers against an outstanding pull request of the topic.
SubDeliver(t) ==
    /\ conn = "open"
    /\ tcredit[t] > 0
    /\ tpend[t] > 0
    /\ tcredit' = [tcredit EXCEPT ![t] = @ - 1]
    /\ tpend' = [tpend EXCEPT ![t] = @ - 1]
    /\ tinbox' = [tinbox EXCEPT ![t] = @ + 1]
    /\ UNCHANGED outside
    /\ UNCHANGED <<handlers, upstream, hung, streams, subscribers, cpc, ci, si, conn,
                   opened, firstPulls, tpulls, tpub, trpc, tcount, tacked>>

\* One runner for all the subscriptions.
RunnerFree_shared(t) == trpc[t] = "await" /\ \A u \in Topics : trpc[u] # "handling"

\* Every runSub call is a loop of its own: it takes the next event of its
\* subscription whenever it is not in a handler itself.
RunnerFree(t) == trpc[t] = "await"

\* for await (const event of sub) { try { await handler(event);
SubTake(t) ==
    /\ RunnerFree(t)
    /\ tinbox[t] > 0
    /\ tinbox' = [tinbox EXCEPT ![t] = @ - 1]
    /\ trpc' = [trpc EXCEPT ![t] = "handling"]
    /\ UNCHANGED outside
    /\ UNCHANGED <<handlers, upstream, hung, streams, subscribers, cpc, ci, si, conn,
                   opened, firstPulls, tpulls, tcredit, tpub, tpend, tcount, tacked>>

\* The handler chain of the topic settles; the handler of the hung topic never
\* does.
SubSettle(t, o) ==
    /\ trpc[t] = "handling"
    /\ t # hung
    /\ o \in ChainOutcomes
    /\ tacked' = IF RunSubAcks(o) THEN [tacked EXCEPT ![t] = @ + 1] ELSE tacked
    /\ IF RunSubDone(o)
         THEN IF PullDue(tcount[t] + 1)
                THEN /\ tcount' = [tcount EXCEPT ![t] = 0]
                     /\ tcredit' = [tcredit EXCEPT ![t] = @ + batch]
                     /\ tpulls' = [tpulls EXCEPT ![t] = @ + 1]
                ELSE /\ tcount' = [tcount EXCEPT ![t] = @ + 1]
                     /\ UNCHANGED <<tcredit, tpulls>>
         ELSE UNCHANGED <<tcount, tcredit, tpulls>>
    /\ trpc' = [trpc EXCEPT ![t] = "await"]
    /\ UNCHANGED outside
    /\ UNCHANGED <<handlers, upstream, hung, streams, subscribers, cpc, ci, si, conn,
                   opened, firstPulls, tpub, tpend, tinbox>>

\* A registry in which the first registration of a key stays.
BoundHandler_first(hs, t) ==
    CHOOSE i \in 1..Len(hs) : hs[i] = t /\ \A j \in 1..(i - 1) : hs[j] # t

\* this.subscribers.set(`${group_tag}.${handler_tag}`, collapse(handler, ...))
\* in the order of the parsed list: set replaces the value of a key the Map
\* already has, so the key holds the function of the last handler parsed for
\* it.  The result is the position of that handler in the list.
BoundHandler(hs, t) ==
    CHOOSE i \in 1..Len(hs) : hs[i] = t /\ \A j \in (i + 1)..Len(hs) : hs[j] # t

\* await handler(event) in the runner of topic t: the function called is the
\* one start() read from this.subscribers for t.
ObserveHandler(t) == invoked' = invoked \cup {BoundHandler(handlers, t)}

(***************************************************************************)
(* durableName (part_002:419-434).  A string is a sequence of characters;  *)
(* "a" stands for every character the function leaves alone and does not   *)
(* write itself, "_" is the character it joins the parts with and writes   *)
(* for a dot.                                                              *)
(***************************************************************************)
Chars == {"a", "_", ".", "*", ">"}
Reserved == {".", "*", ">"}

\* The strings of at most n characters.
Strings(n) == UNION {[1..k -> Chars] : k \in 0..n}

\* const invalidChars = { '.': '_', '*': 'opts', '>': 'spread' };
invalidChars(c) ==
    CASE c = "." -> <<"_">>
      [] c = "*" -> <<"o", "p", "t", "s">>
      [] c = ">" -> <<"s", "p", "r", "e", "a", "d">>

\* topic.replace(/[\.\*\>]/g, c => invalidChars[c])
RECURSIVE safeTopic(_)
safeTopic(topic) ==
    IF topic = <<>> THEN <<>>
    ELSE (IF Head(topic) \in Reserved THEN invalidChars(Head(topic)) ELSE <<Head(topic)>>)
            \o safeTopic(Tail(topic))

\* return `${stream}_${namespace}_${safeTopic}`;
durableName(stream, namespace, topic) ==
    stream \o <<"_">> \o namespace \o <<"_">> \o safeTopic(topic)

\* One call of durableName.
DurableNameCall ==
    /\ dpc = "init"
    /\ dname' = durableName(dstream, dnamespace, dtopic)
    /\ dpc' = "done"
    /\ UNCHANGED <<dstream, dnamespace, dtopic>>
    /\ UNCHANGED <<qvars, svars, sobs, lobs, logger, cvars, mvars, avars, gvars, evars, iobs, rvars>>

(***************************************************************************)
(* One registration with its middleware (part_002:374-380) and one         *)
(* invocation of the function collapse returns for it.  A middleware is    *)
(* named by its level and its position in the declaration; the handler is  *)
(* TheHandler.                                                             *)
(***************************************************************************)
TheHandler == <<"F", 0>>

\* The middleware a decorator was given, in declared order.
MwList(level, n) == [i \in 1..n |-> <<level, i>>]

\* Handler middleware placed in front of the group's.
Chain_handlerFirst(g, h) == h \o g

\* const middleware = [...group_middleware, ...handler_middleware];
Chain(g, h) == g \o h

\* new Consumers: the registration with m group and n handler middleware.
Registered(m, n) ==
    /\ groupMw = MwList("G", m)
    /\ handlerMw = MwList("H", n)
    /\ chain = Chain(MwList("G", m), MwList("H", n))
    /\ mpos = 0
    /\ mtrace = <<>>
    /\ mpc = "idle"

\* The function collapse returns is called with a message; the caller says
\* which.
ChainInvoke ==
    /\ mpc \in {"idle", "done"}
    /\ mpc' = "running"
    /\ mpos' = 0
    /\ mtrace' = <<>>
    /\ UNCHANGED <<groupMw, handlerMw, callsNext, chain>>
    /\ UNCHANGED <<qvars, svars, sobs, lobs, logger, cvars, dvars, avars, gvars, iobs, rvars>>

\* A chain that goes on whatever the middleware did.
Continues_always(mw) == TRUE

\* The chain goes on after a middleware only when that middleware called the
\* next it was given.
Continues(mw) == mw \in callsNext

\* The next member of the chain runs: a middleware, with a next that runs the
\* member after it, or the handler after the last middleware.
ChainStep ==
    /\ mpc = "running"
    /\ IF mpos < Len(chain)
         THEN /\ mtrace' = Append(mtrace, chain[mpos + 1])
              /\ IF Continues(chain[mpos + 1])
                   THEN mpos' = mpos + 1 /\ UNCHANGED mpc
                   ELSE mpc' = "done" /\ UNCHANGED mpos
         ELSE /\ mtrace' = Append(mtrace, TheHandler)
              /\ mpc' = "done"
              /\ UNCHANGED mpos
    /\ UNCHANGED <<groupMw, handlerMw, callsNext, chain>>
    /\ UNCHANGED <<qvars, svars, sobs, lobs, logger, cvars, dvars, avars, gvars, evars, iobs, rvars>>

(***************************************************************************)
(* The chain as the handler runSub awaits (part_002:380, 456-458): the     *)
(* function collapse returned is what start() hands to runSub, so every    *)
(* delivery is one invocation of the chain.                                *)
(***************************************************************************)
\* The delivery runSub is handling: the message and which call of the
\* subscriber for it this is.
Invocation == <<cur, hcalls[cur]>>

\* A chain whose promise rejects with a RetryError when the handler was not
\* reached.
ChainResults_retry(trace) ==
    IF \E k \in 1..Len(trace) : trace[k] = TheHandler THEN ChainOutcomes ELSE {"retry"}

\* What `await handler(event)` observes once the chain is over: what the
\* handler did if it ran; when a middleware returned without calling next,
\* that middleware returned normally and the promise resolves.
ChainResults(trace) ==
    IF \E k \in 1..Len(trace) : trace[k] = TheHandler THEN ChainOutcomes ELSE {"ok"}

\* await handler(event): runSub calls the chain with the event it took.
SubChainInvoke ==
    /\ rpc = "handling"
    /\ mevent # Invocation
    /\ mevent' = Invocation
    /\ ChainInvoke

\* The chain is over for the event: runSub goes on after its await, or in its
\* catch.
SubChainSettle ==
    /\ rpc = "handling"
    /\ mpc = "done"
    /\ mevent = Invocation
    /\ \E o \in ChainResults(mtrace) : RunSubSettle(o)

(***************************************************************************)
(* AmqpModule (part_002:17-82) and AmqpWorker.getOptions (mq/worker.ts:    *)
(* 17-50): how the URL of a queue client is resolved.                      *)
(***************************************************************************)
\* A parameter or static field that was never given a value.
Undefined == "undefined"

\* The strings a URL parameter can hold; "" is the empty string.
Urls == {"", "amqp://one", "amqp://two"}

\* JavaScript's !url
Falsy(u) == u = Undefined \/ u = ""

\* A resolution that always takes the global URL.
Resolve_global(u) == globalUrl

\* const url = options.url ?? AmqpModule.globalUrl;
Resolve(u) == IF u = Undefined THEN globalUrl ELSE u

\* The values of an optional noAck argument.
Flags == {Undefined, "true", "false"}

\* noAckValue = queueOrNoAck ?? false;  and the default  noAck = false
OrFalse(na) == IF na = Undefined THEN "false" ELSE na

\* What a call produces for the URL it resolved: the thrown Error
\* 'AMQP URL is required', or the module / options holding urls: [url] and,
\* for getOptions, noAck.
Thrown == <<"throw", Undefined, Undefined>>
Built(kind, u, na) == <<kind, u, na>>

\* static forRoot(options) { AmqpModule.globalUrl = options.url; return {...} }
ForRoot(u) ==
    /\ nroot < MaxForRoot
    /\ globalUrl' = u
    /\ nroot' = nroot + 1
    /\ acall' = <<"forRoot", u, Undefined>>
    /\ ares' = Built("root", Undefined, Undefined)
    /\ UNCHANGED <<qvars, svars, sobs, lobs, logger, cvars, dvars, mvars, gvars, evars, iobs, rvars>>

\* static queue(options): if (!url) throw ...; return the dynamic module, whose
\* client options hold urls and queue.
Queue(u, na) ==
    /\ acall' = <<"queue", u, na>>
    /\ ares' = IF Falsy(Resolve(u)) THEN Thrown
               ELSE Built("module", Resolve(u), Undefined)
    /\ UNCHANGED <<globalUrl, nroot>>
    /\ UNCHANGED <<qvars, svars, sobs, lobs, logger, cvars, dvars, mvars, gvars, evars, iobs, rvars>>

\* getOptions(queue, noAck?): the second argument is no string.
\* url = AmqpModule.getGlobalUrl(); if (!url) throw ...
GetOptionsGlobal(na) ==
    /\ acall' = <<"getOptions", Undefined, na>>
    /\ ares' = IF Falsy(globalUrl) THEN Thrown
               ELSE Built("options", globalUrl, OrFalse(na))
    /\ UNCHANGED <<globalUrl, nroot>>
    /\ UNCHANGED <<qvars, svars, sobs, lobs, logger, cvars, dvars, mvars, gvars, evars, iobs, rvars>>

\* getOptions(url, queue, noAck?): typeof queueOrNoAck === 'string', url =
\* urlOrQueue goes into the options as it is.
GetOptionsUrl(u, na) ==
    /\ acall' = <<"getOptions", u, na>>
    /\ ares' = Built("options", u, OrFalse(na))
    /\ UNCHANGED <<globalUrl, nroot>>
    /\ UNCHANGED <<qvars, svars, sobs, lobs, logger, cvars, dvars, mvars, gvars, evars, iobs, rvars>>

\* The module is loaded and nothing was called.
AOff ==
    /\ globalUrl = Undefined
    /\ nroot = 0
    /\ acall = <<"none", Undefined, Undefined>>
    /\ ares = <<"none", Undefined, Undefined>>

(***************************************************************************)
(* A second caller of RedisQueue.fill with an array on the same queue      *)
(* (provider.ts:313-322), e.g. a second leader process.                    *)
(***************************************************************************)
\* const length = await this.length(); if (length > 0 && isArray) return false
Fill2Call(n) ==
    /\ gpc = "idle"
    /\ nextItem + n - 1 <= MaxItems
    /\ IF FillRefuses
         THEN UNCHANGED <<gpc, gbatch, nextItem>>
         ELSE /\ gpc' = "push"
              /\ gbatch' = FreshBatch(n)
              /\ nextItem' = nextItem + n
    /\ UNCHANGED <<svars, sobs, lobs, logger, cvars, dvars, mvars, avars, evars, iobs, rvars, fchunks, fobs,
                   robs>>
    /\ UNCHANGED <<retries, parallelism, handlerPolicy, queue, deadLetterHash,
                   wpc, attempt, lpc, ldata, lkey, lattempt, fpc, fbatch, rqpc, dead,
                   requeues, calls, lcalls, lres>>

\* await this.redis.multi(instructions).exec(); return true
Fill2Push ==
    /\ gpc = "push"
    /\ queue' = RPush(queue, gbatch)
    /\ gpc' = "idle"
    /\ gbatch' = <<>>
    /\ UNCHANGED <<svars, sobs, lobs, logger, cvars, dvars, mvars, avars, evars, iobs, rvars, fchunks, fobs,
                   robs>>
    /\ UNCHANGED <<retries, parallelism, handlerPolicy, deadLetterHash,
                   wpc, attempt, lpc, ldata, lkey, lattempt, fpc, fbatch, nextItem,
                   rqpc, dead, requeues, calls, lcalls, lres>>

\* No second caller is in a fill call.
GOff == gpc = "idle" /\ gbatch = <<>>

(***************************************************************************)
(* The decorators and parseHandlers (part_002:247-319).  The decorators of *)
(* a class run when the class is defined: those of its methods, in         *)
(* declaration order, then the one of the class.  A metadata value is None *)
(* when it is not defined and Some(v) when it is v.                        *)
(***************************************************************************)
None == <<>>
Some(v) == <<v>>

Classes == 1..MaxClasses
Instances == 1..MaxInstances

\* The handler tags of the decorated methods of a class, in declaration order.
TagLists == UNION {[1..n -> Subjects] : n \in 0..MaxMethods}

\* Class c is the c-th class defined in the process.
\* @handler(tag) on every decorated method: the list on the constructor is
\* created by the first and pushed to by each;  @group(tag) on the class:
\* const updatedGroupMetadata = [metadata, ...groupMetadata].
DeclareClass(c, g, tags) ==
    /\ decl[c] = None
    /\ \A b \in 1..(c - 1) : decl[b] # None
    /\ decl' = [decl EXCEPT ![c] = Some(<<g, tags, built>>)]
    /\ methodMeta' = [methodMeta EXCEPT ![c] = IF tags = <<>> THEN None ELSE Some(tags)]
    /\ groupMeta' = Some(<< <<g, c>> >> \o (IF groupMeta = None THEN <<>> ELSE groupMeta[1]))
    /\ UNCHANGED <<built, ihandlers, istreams, isubscribers>>
    /\ UNCHANGED <<qvars, svars, sobs, lobs, logger, cvars, dvars, mvars, avars, gvars, evars, iobs>>

\* collectMetadata: return result ?? defaultVal
Collected(v, defaultVal) == IF v = None THEN defaultVal ELSE v[1]

\* A collectMetadata that only reads.
Remaining_kept(v) == v

\* collectMetadata: if (result) Reflect.deleteMetadata(key, target); a list is
\* truthy also when it is empty.
Remaining(v) == IF v # None THEN None ELSE v

\* parseHandlers: for every group in the order of the list, one entry per
\* method of its class, in the order of the class's list.
RECURSIVE ParsedHandlers(_, _)
ParsedHandlers(groups, mm) ==
    IF groups = <<>> THEN <<>>
    ELSE LET tags == Collected(mm[Head(groups)[2]], <<>>)
         IN [i \in 1..Len(tags) |-> <<Head(groups)[1], tags[i]>>]
                \o ParsedHandlers(Tail(groups), mm)

\* new Consumers(moduleRef): parseHandlers, which collects the group list and
\* the method list of every class in it, then streams.add and subscribers.set
\* for every handler returned.
Construct ==
    /\ built < MaxInstances
    /\ LET groups == Collected(groupMeta, <<>>)
           hs == ParsedHandlers(groups, methodMeta)
       IN /\ ihandlers' = [ihandlers EXCEPT ![built + 1] = hs]
          /\ istreams' = [istreams EXCEPT ![built + 1] = StreamsOf(hs)]
          /\ isubscribers' = [isubscribers EXCEPT ![built + 1] = SubscribersOf(hs)]
          /\ methodMeta' = [c \in Classes |->
                              IF \E i \in 1..Len(groups) : groups[i][2] = c
                                THEN Remaining(methodMeta[c])
                                ELSE methodMeta[c]]
    /\ groupMeta' = Remaining(groupMeta)
    /\ built' = built + 1
    /\ UNCHANGED decl
    /\ UNCHANGED <<qvars, svars, sobs, lobs, logger, cvars, dvars, mvars, avars, gvars, evars, iobs>>

\* No class is decorated and no Consumers object constructed.
ROff ==
    /\ groupMeta = None
    /\ methodMeta = [c \in Classes |-> None]
    /\ decl = [c \in Classes |-> None]
    /\ built = 0
    /\ ihandlers = [k \in Instances |-> <<>>]
    /\ istreams = [k \in Instances |-> <<>>]
    /\ isubscribers = [k \in Instances |-> <<>>]

\* durableName is not called.
DOff ==
    /\ dstream = <<>>
    /\ dnamespace = <<>>
    /\ dtopic = <<>>
    /\ dname = <<>>
    /\ dpc = "init"

\* No handler was called.
IOff == invoked = {}

\* No event was passed to a chain.
EOff == mevent = <<NoMsg, 0>>

\* No handler chain is invoked.
MOff ==
    /\ groupMw = <<>>
    /\ handlerMw = <<>>
    /\ callsNext = {}
    /\ chain = <<>>
    /\ mpos = 0
    /\ mtrace = <<>>
    /\ mpc = "idle"

\* The host ends the consumer.  Consumers has no stop or shutdown method and
\* start() keeps no reference to its subscriptions; what the host can do is
\* close the connection it passed to start() (docs: stop() closes the NATS
\* connection).  None of the runners is asked or waited for.
Stop ==
    /\ conn = "open"
    /\ cpc = "started"
    /\ conn' = "closed"
    /\ UNCHANGED outside
    /\ UNCHANGED <<handlers, upstream, hung, streams, subscribers, cpc, ci, si,
                   opened, firstPulls, tpulls, tcredit, tpub, tpend, tinbox, trpc,
                   tcount, tacked>>

\* Nothing delivered or handled yet.
OOff == dlog = <<>> /\ hlog = <<>> /\ nsettled = 0

\* Nothing logged or absorbed yet.
LobsInit ==
    /\ plog = 0
    /\ elog = 0
    /\ raw = "none"
    /\ given = "none"
    /\ nerr = 0
    /\ nerrlog = 0

(***************************************************************************)
(* work() with and without a logger (provider.ts:370-375, 408-421).  The   *)
(* payloads of Dated hold a Date field, which JSON.stringify writes as an  *)
(* ISO string; the others hold JSON values only.                           *)
(***************************************************************************)
Dated == {i \in Items : i % 2 = 1}

\* JSON.parse(job): what a Date field of the payload comes back as.
JSONParse(i) == IF i \in Dated THEN "string" ELSE "json"

\* JSON.parse(msg, dateReviver): the reviver restores date-typed fields.
JSONParseRevived(i) == IF i \in Dated THEN "date" ELSE "json"

\* if (logger) handler = this.wrapHandler(...) else handler = (job) =>
\* f(JSON.parse(job)): the payload f is called with.
Decoded(withLogger, i) == IF withLogger THEN JSONParseRevived(i) ELSE JSONParse(i)

\* wrapHandler: try { await handler(data) } catch (err) { childLogger.error(err,
\* { data }); throw err; }: the wrapped handler settles as f did.
WrapHandler(o) == o

\* How the handler work() builds settles when f settles with o.
Handled(o) == IF logger THEN WrapHandler(o) ELSE o

\* An invocation starts: childLogger.log({ data }) with a logger, nothing
\* without; then f is called with the decoded payload.
ObserveInvoke(l) ==
    /\ plog' = IF logger THEN plog + 1 ELSE plog
    /\ given' = Decoded(logger, ldata[l])
    /\ UNCHANGED <<elog, raw, nerr, nerrlog>>

\* f settles with o: the wrapper's catch logs the error with the payload; the
\* loop's `catch (err) { // no-op }` absorbs an error that is not the Retry
\* Signal, having logged nothing itself.
ObserveOutcome(o) ==
    /\ raw' = o
    /\ elog' = IF logger /\ o # "ok" THEN elog + 1 ELSE elog
    /\ nerr' = IF Handled(o) = "error" THEN nerr + 1 ELSE nerr
    /\ nerrlog' = IF Handled(o) = "error" /\ logger /\ o # "ok" THEN nerrlog + 1 ELSE nerrlog
    /\ UNCHANGED <<plog, given>>

\* work() is called without a logger.
LOff == logger = FALSE /\ LobsInit

Init == QInit /\ SOff /\ OOff /\ LOff /\ ROff /\ IOff /\ EOff /\ GOff /\ AOff /\ DOff /\ MOff /\ COff

Next == QNext

\* Every interleaving of fill, requeue and one work() call.
Spec == Init /\ [][Next]_vars

\* fill calls complete before work() starts, and requeue is not called: the
\* drain loops of one work() call run against a queue nobody else touches.
DrainNext ==
    \/ \E n \in 1..MaxItems : wpc = "idle" /\ FillCall(n) /\ UNCHANGED fobs
    \/ wpc = "idle" /\ FillPush /\ UNCHANGED fobs
    \/ fpc = "idle" /\ WorkStart
    \/ WorkPoll
    \/ \E l \in Loops : LoopPop(l)
    \/ \E l \in Loops : LoopBackup(l)
    \/ \E l \in Loops : LoopInvoke(l) /\ UNCHANGED lobs
    \/ \E l \in Loops, o \in {"ok", "retry", "error"} : LoopSettle(l, o) /\ UNCHANGED lobs
    \/ \E l \in Loops : LoopHdel(l)

SpecDrain == Init /\ [][DrainNext]_vars

\* The same under the scheduling the runtime guarantees once work() runs: a
\* pending Redis command completes, a timer fires, and the handler settles.
\* Nothing obliges anyone to call fill or work.
DrainFairness ==
    /\ WF_vars(WorkPoll)
    /\ \A l \in Loops :
          /\ WF_vars(LoopPop(l))
          /\ WF_vars(LoopBackup(l))
          /\ WF_vars(LoopInvoke(l) /\ UNCHANGED lobs)
          /\ WF_vars(\E o \in {"ok", "retry", "error"} : LoopSettle(l, o) /\ UNCHANGED lobs)
          /\ WF_vars(LoopHdel(l))

\* The handler fails for every item.
FailInit == Init /\ handlerPolicy \in {"retry", "error"}

SpecDrainFair == FailInit /\ [][DrainNext]_vars /\ DrainFairness

\* The same, followed by requeue calls once work() has returned and its loops
\* have stopped: recovery of what the run left in the dead-letter store.
RecoverNext ==
    \/ DrainNext
    \/ /\ wpc = "returned"
       /\ \A l \in Loops : lpc[l] \in {"idle", "stopped"}
       /\ RequeueRead
       /\ ObserveRequeueRead
    \/ RequeueExec /\ ObserveRequeueExec

SpecRecover == Init /\ [][RecoverNext]_vars

\* fill calls of both kinds, one at a time and their history recorded, next to
\* one work() call of a single drain loop whose handler always succeeds: the
\* queue is read and popped while a fill call is in progress.
FillInit == Init /\ retries = 0 /\ parallelism = 1 /\ handlerPolicy = "ok"

FillNext ==
    \/ \E n \in 1..MaxItems :
          passed + n <= MaxPassed /\ FillCall(n) /\ ObserveCall("array", <<FreshBatch(n)>>)
    \/ FillPush /\ ObservePush
    \/ \E n \in 1..MaxItems : \E cs \in Chunkings(FreshBatch(n)) :
          passed + n <= MaxPassed /\ FillStreamCall(cs) /\ ObserveCall("stream", cs)
    \/ FillChunk /\ ObservePush
    \/ FillStreamEnd /\ ObserveReturn
    \/ WorkStart
    \/ WorkPoll
    \/ \E l \in Loops : LoopPop(l)
    \/ \E l \in Loops : LoopBackup(l)
    \/ \E l \in Loops : LoopInvoke(l) /\ UNCHANGED lobs
    \/ \E l \in Loops, o \in {"ok", "retry", "error"} : LoopSettle(l, o) /\ UNCHANGED lobs
    \/ \E l \in Loops : LoopHdel(l)

SpecFill == FillInit /\ [][FillNext]_vars

\* What is recorded at a delivery, at the start of an invocation and when the
\* runner has decided to ack the message or to leave it.
ObserveDeliver(m) == dlog' = Append(dlog, m) /\ UNCHANGED <<hlog, nsettled>>

ObserveTake == hlog' = Append(hlog, cur') /\ UNCHANGED <<dlog, nsettled>>

ObserveSettle == nsettled' = nsettled + 1 /\ UNCHANGED <<dlog, hlog>>

\* One subscription with the order of its deliveries and invocations recorded.
OrderNext ==
    \/ Start /\ UNCHANGED sobs
    \/ Publish /\ UNCHANGED sobs
    \/ \E m \in Msgs : BrokerDeliver(m) /\ ObserveDeliver(m)
    \/ \E m \in Msgs : AckWaitExpire(m) /\ UNCHANGED sobs
    \/ RunSubTake /\ ObserveTake
    \/ \E o \in {"ok", "retry", "error"} : RunSubSettle(o) /\ ObserveSettle

StreamInit == QOff /\ SInit /\ OOff /\ LOff /\ ROff /\ IOff /\ EOff /\ GOff /\ AOff /\ DOff /\ MOff /\ COff

\* One subscription, its broker-side consumer and its publisher.
SpecStream == StreamInit /\ [][StreamNext]_vars

SpecStreamOrder == StreamInit /\ [][OrderNext]_vars

\* The same under the scheduling the runtime and the broker guarantee: every
\* step of the runner and of the broker that stays possible is taken.  Nothing
\* obliges a publisher to publish.
StreamFairness ==
    /\ WF_vars(Start /\ UNCHANGED sobs)
    /\ WF_vars(RunSubTake /\ UNCHANGED sobs)
    /\ WF_vars(\E o \in {"ok", "retry", "error"} : RunSubSettle(o) /\ UNCHANGED sobs)
    /\ \A m \in Msgs : WF_vars(BrokerDeliver(m) /\ UNCHANGED sobs)
    /\ \A m \in Msgs : WF_vars(AckWaitExpire(m) /\ UNCHANGED sobs)

SpecStreamFair == StreamInit /\ [][StreamNext]_vars /\ StreamFairness

\* start() and its subscriptions, without the runners: every step of start()
\* for every list of handlers and every set of streams the broker has.
StartNext ==
    \/ StartManager /\ UNCHANGED iobs
    \/ StartCheck /\ UNCHANGED iobs
    \/ StartSubscribe /\ UNCHANGED iobs

StartInit ==
    /\ QOff /\ SInit /\ chainPolicy = "free" /\ OOff /\ LOff /\ ROff /\ IOff /\ EOff /\ GOff /\ AOff /\ DOff /\ MOff
    /\ upstream \in SUBSET Groups
    /\ hung = NoTopic
    /\ \E hs \in HandlerLists : Constructed(hs)

SpecStart == StartInit /\ [][StartNext]_vars

\* start() followed by the runners of its subscriptions and the publishers.
ConsumersNext ==
    \/ StartManager /\ UNCHANGED iobs
    \/ StartCheck /\ UNCHANGED iobs
    \/ StartSubscribe /\ UNCHANGED iobs
    \/ \E t \in Topics : SubPublish(t) /\ UNCHANGED iobs
    \/ \E t \in Topics : SubDeliver(t) /\ UNCHANGED iobs
    \/ \E t \in Topics : SubTake(t) /\ UNCHANGED iobs
    \/ \E t \in Topics, o \in {"ok", "retry", "error"} : SubSettle(t, o) /\ UNCHANGED iobs

\* Two subscriptions, on one stream or on two, all streams exist, handlers that
\* succeed; the handler of one of the two never completes.
TwoSubsInit ==
    /\ QOff /\ SInit /\ chainPolicy = "ok" /\ OOff /\ LOff /\ ROff /\ IOff /\ EOff /\ GOff /\ AOff /\ DOff /\ MOff
    /\ upstream = Groups
    /\ \E hs \in {<< <<"a", "x">>, <<"a", "y">> >>, << <<"a", "x">>, <<"b", "x">> >>} :
          /\ Constructed(hs)
          /\ hung \in {hs[1], hs[2]}

\* start() proceeds, the broker delivers against outstanding pulls, every
\* runner takes the events of its subscription, and a handler that is not hung
\* completes.
ConsumersFairness ==
    /\ WF_vars(StartManager /\ UNCHANGED iobs)
    /\ WF_vars(StartCheck /\ UNCHANGED iobs)
    /\ WF_vars(StartSubscribe /\ UNCHANGED iobs)
    /\ \A t \in Topics : WF_vars(SubDeliver(t) /\ UNCHANGED iobs)
    /\ \A t \in Topics : WF_vars(SubTake(t) /\ UNCHANGED iobs)
    /\ \A t \in Topics :
          WF_vars(\E o \in {"ok", "retry", "error"} : SubSettle(t, o) /\ UNCHANGED iobs)

SpecConsumersFair == TwoSubsInit /\ [][ConsumersNext]_vars /\ ConsumersFairness

\* durableName applied to every stream, namespace and topic within the bounds.
NameInit ==
    /\ QOff /\ SOff /\ OOff /\ LOff /\ ROff /\ IOff /\ EOff /\ GOff /\ AOff /\ COff /\ MOff
    /\ dstream \in Strings(MaxNameLen)
    /\ dnamespace \in Strings(MaxNameLen)
    /\ dtopic \in Strings(MaxTopicLen)
    /\ dname = <<>>
    /\ dpc = "init"

NameNext == DurableNameCall

SpecName == NameInit /\ [][NameNext]_vars

\* One registration with up to MaxMw middleware on each level, any of which
\* may return without calling next, and the invocations of its chain.
MwInit ==
    /\ QOff /\ SOff /\ OOff /\ LOff /\ ROff /\ IOff /\ EOff /\ GOff /\ AOff /\ COff /\ DOff
    /\ \E m \in 0..MaxMw, n \in 0..MaxMw : Registered(m, n)
    /\ callsNext \in SUBSET {chain[k] : k \in 1..Len(chain)}

MwNext ==
    \/ ChainInvoke /\ UNCHANGED evars
    \/ ChainStep

SpecMw == MwInit /\ [][MwNext]_vars

\* One work() call, with a logger or without, on a queue filled before it
\* starts, with what the logger is given recorded.
LogNext ==
    \/ \E n \in 1..MaxItems : wpc = "idle" /\ FillCall(n) /\ UNCHANGED fobs
    \/ wpc = "idle" /\ FillPush /\ UNCHANGED fobs
    \/ fpc = "idle" /\ WorkStart
    \/ WorkPoll
    \/ \E l \in Loops : LoopPop(l)
    \/ \E l \in Loops : LoopBackup(l)
    \/ \E l \in Loops : LoopInvoke(l) /\ ObserveInvoke(l)
    \/ \E l \in Loops, o \in {"ok", "retry", "error"} :
          o \in Outcomes /\ LoopSettle(l, Handled(o)) /\ ObserveOutcome(o)
    \/ \E l \in Loops : LoopHdel(l)

LogInit ==
    /\ QInit /\ SOff /\ OOff /\ ROff /\ IOff /\ EOff /\ GOff /\ AOff /\ COff /\ DOff /\ MOff
    /\ logger \in BOOLEAN
    /\ LobsInit

SpecLog == LogInit /\ [][LogNext]_vars

\* The consumers with a host that ends them at any moment after start().
StopNext ==
    \/ ConsumersNext
    \/ Stop /\ UNCHANGED iobs

SpecConsumersStop == TwoSubsInit /\ [][StopNext]_vars

\* Every order of forRoot, queue and getOptions calls, with and without a URL.
AmqpNext ==
    \/ \E u \in Urls : ForRoot(u)
    \/ \E u \in Urls \cup {Undefined}, na \in Flags : Queue(u, na)
    \/ \E na \in Flags : GetOptionsGlobal(na)
    \/ \E u \in Urls, na \in Flags : GetOptionsUrl(u, na)

AmqpInit ==
    /\ QOff /\ SOff /\ OOff /\ LOff /\ ROff /\ IOff /\ EOff /\ GOff /\ AOff /\ COff /\ DOff /\ MOff

SpecAmqp == AmqpInit /\ [][AmqpNext]_vars

\* Two callers of fill with arrays on one queue, and one work() call of a
\* single drain loop whose handler always succeeds.
TwoFillNext ==
    \/ \E n \in 1..MaxItems : FillCall(n) /\ UNCHANGED fobs
    \/ FillPush /\ UNCHANGED fobs
    \/ \E n \in 1..MaxItems : Fill2Call(n)
    \/ Fill2Push
    \/ WorkStart
    \/ WorkPoll
    \/ \E l \in Loops : LoopPop(l)
    \/ \E l \in Loops : LoopBackup(l)
    \/ \E l \in Loops : LoopInvoke(l) /\ UNCHANGED lobs
    \/ \E l \in Loops, o \in {"ok", "retry", "error"} : LoopSettle(l, o) /\ UNCHANGED lobs
    \/ \E l \in Loops : LoopHdel(l)

SpecTwoFills == FillInit /\ [][TwoFillNext]_vars

\* One subscription whose subscriber is a handler behind up to MaxMw
\* middleware on each level, any of which may return without calling next.
SubChainInit ==
    /\ QOff /\ SInit /\ chainPolicy = "free" /\ OOff /\ LOff /\ ROff /\ IOff /\ EOff /\ GOff /\ AOff /\ DOff
    /\ COff
    /\ \E m \in 0..MaxMw, n \in 0..MaxMw : Registered(m, n)
    /\ callsNext \in SUBSET {chain[k] : k \in 1..Len(chain)}

SubChainNext ==
    \/ Start /\ UNCHANGED sobs
    \/ Publish /\ UNCHANGED sobs
    \/ \E m \in Msgs : BrokerDeliver(m) /\ UNCHANGED sobs
    \/ \E m \in Msgs : AckWaitExpire(m) /\ UNCHANGED sobs
    \/ RunSubTake /\ UNCHANGED sobs
    \/ SubChainInvoke /\ UNCHANGED sobs
    \/ ChainStep
    \/ SubChainSettle /\ UNCHANGED sobs

SpecSubChain == SubChainInit /\ [][SubChainNext]_vars

\* start() and its runners for every parsed list of handlers of one subject,
\* in one group or in two, lists with several handlers for one pair among
\* them; all streams exist and every handler completes.
BindingInit ==
    /\ QOff /\ SInit /\ chainPolicy = "free" /\ OOff /\ LOff /\ ROff /\ IOff /\ EOff /\ GOff /\ AOff
    /\ DOff /\ MOff
    /\ upstream = Groups
    /\ hung = NoTopic
    /\ \E hs \in HandlerLists :
          /\ \A i \in 1..Len(hs) : hs[i][2] = "x"
          /\ Constructed(hs)

BindingNext ==
    \/ StartManager /\ UNCHANGED iobs
    \/ StartCheck /\ UNCHANGED iobs
    \/ StartSubscribe /\ UNCHANGED iobs
    \/ \E t \in Topics : SubPublish(t) /\ UNCHANGED iobs
    \/ \E t \in Topics : SubDeliver(t) /\ UNCHANGED iobs
    \/ \E t \in Topics : SubTake(t) /\ ObserveHandler(t)
    \/ \E t \in Topics, o \in {"ok", "retry", "error"} : SubSettle(t, o) /\ UNCHANGED iobs

SpecBinding == BindingInit /\ [][BindingNext]_vars

\* Classes are decorated and Consumers objects constructed, in every order.
RegistryInit ==
    /\ QOff /\ SOff /\ OOff /\ LOff /\ ROff /\ IOff /\ EOff /\ GOff /\ AOff /\ COff /\ DOff /\ MOff

RegistryNext ==
    \/ \E c \in Classes, g \in Groups, tags \in TagLists : DeclareClass(c, g, tags)
    \/ Construct

SpecRegistry == RegistryInit /\ [][RegistryNext]_vars

(***************************************************************************)
(* Properties                                                              *)
(***************************************************************************)
\* Every loop work() started has thrown its Retry Signal and work() returned.
AllStopped ==
    /\ wpc = "returned"
    /\ \A l \in Loops : lpc[l] \in {"idle", "stopped"}

\* The payloads passed to fill so far.
Filled == 1..(nextItem - 1)

\* C1: with a handler that always succeeds and nobody else touching the queue,
\* no payload is handed to the handler twice, no two loops hold the same popped
\* payload, and once every loop has stopped every payload put in the queue has
\* been handed to the handler exactly once and the queue is empty.
C1_EachItemHandledOnce ==
    handlerPolicy = "ok" =>
        /\ \A i \in Items : calls[i] <= 1
        /\ \A l1, l2 \in Loops :
              (l1 # l2 /\ ldata[l1] # NoJob /\ ldata[l2] # NoJob) => ldata[l1] # ldata[l2]
        /\ AllStopped => (queue = <<>> /\ fpc = "idle" /\ \A i \in Filled : calls[i] = 1)

C1_Witness ==
    /\ handlerPolicy = "ok"
    /\ \E l1, l2 \in Loops :
          /\ l1 # l2
          /\ lpc[l1] = "running"
          /\ lpc[l2] = "running"
    /\ queue = <<>>

\* C2: every item in flight (its record is due, its handler has not succeeded
\* yet) and every item whose retries are exhausted has a dead-letter record
\* holding its payload.
C2_InFlightHasRecord ==
    \A l \in Loops :
        (\/ lpc[l] \in {"call", "running"}
         \/ lpc[l] = "hdel" /\ lres[l] = "exhausted")
        => deadLetterHash[lkey[l]] = ldata[l]

\* C3: when the retries of an item are exhausted, the step with which the drain
\* loop leaves the item behind keeps its dead-letter record in the store.
C3_ExhaustedRecordKept ==
    [][\A l \in Loops :
          (lpc[l] = "hdel" /\ lres[l] = "exhausted" /\ lpc'[l] # "hdel")
          => deadLetterHash'[lkey[l]] = ldata[l]]_vars

\* C4: a handler that signals Retry on every attempt is invoked at most
\* retries + 1 times for one popped item, and exactly retries + 1 times by the
\* time the per-item runner has returned.
C4_RetriesPlusOneAttempts ==
    handlerPolicy = "retry" =>
        \A l \in Loops :
            /\ lcalls[l] <= retries + 1
            /\ lpc[l] = "hdel" => lcalls[l] = retries + 1

C4_Witness ==
    /\ handlerPolicy = "retry"
    /\ retries >= 1
    /\ \E l \in Loops : lpc[l] = "hdel" /\ lres[l] = "exhausted" /\ lcalls[l] = retries + 1

\* C5: when the handler succeeded for a popped item, on whatever attempt, the
\* record written for the item is absent from the dead-letter store as soon as
\* the drain loop goes on to its next iteration.
C5_SuccessDeletesRecord ==
    [][\A l \in Loops :
          (lres[l] = "ok" /\ lpc[l] \in {"running", "hdel"} /\ lpc'[l] \notin {"running", "hdel"})
          => (lpc[l] = "hdel" /\ deadLetterHash'[lkey[l]] = NoJob)]_vars

C5_Witness ==
    /\ handlerPolicy = "free"
    /\ \E l \in Loops :
          /\ lpc[l] = "hdel" /\ lres[l] = "ok" /\ lattempt[l] >= 1
          /\ deadLetterHash[lkey[l]] = ldata[l]

\* C6: requeue is atomic: the records its MULTI clears and appends are the
\* records the store holds at that moment, so that the queue grows by exactly
\* the store's content and nothing is dropped or appended twice.
C6_RequeueAtomic ==
    [][(rqpc = "exec" /\ rqpc' = "idle")
          => /\ dead = HVals(deadLetterHash)
             /\ queue' = queue \o HVals(deadLetterHash)
             /\ HKeys(deadLetterHash') = {}]_vars

RECURSIVE SumOver(_, _)
SumOver(f, S) ==
    IF S = {} THEN 0
    ELSE LET x == CHOOSE y \in S : TRUE IN f[x] + SumOver(f, S \ {x})

\* event.ack() calls and deliveries of the subscription so far.
TotalAcks == SumOver(acks, Msgs)
TotalDelivs == SumOver(delivs, Msgs)

\* Messages whose handling ended without the Retry Signal.
Settled == Cardinality({m \in Msgs : last[m] \in {"ok", "error"}})

\* C7: a message left unacknowledged because its handler chain raised the
\* Retry Signal is eventually handed to the subscription's handler again.
C7_RetriedIsRedelivered ==
    \A m \in Msgs : (last[m] = "retry" /\ cur # m) ~> (cur = m)

C9_RetryLeavesMessageAlone ==
    /\ \A m \in Msgs :
          last[m] = "retry" => (acks[m] = 0 /\ bstate[m] \in {"outstanding", "expired"})
    /\ \A m \in Msgs : hcalls[m] <= delivs[m]
    /\ spc = "started" =>
          /\ count + batch * (pulls - 1) = TotalAcks
          /\ credit + TotalDelivs = batch * pulls

C9_Witness ==
    \E m \in Msgs :
        /\ last[m] = "retry"
        /\ cur # m
        /\ rpc = "await"
        /\ hcalls[m] = 1

\* C10: with a handler that always succeeds, one pull of batch is issued at the
\* start and one more at every batch-th acknowledgement, every handled message
\* is acknowledged exactly once, after its handler completed, and with a batch
\* of 2 and 5 messages 3 pulls have been issued and one requested message is
\* still outstanding.
C10_PullPerBatchOfAcks ==
    chainPolicy = "ok" =>
        /\ pulls = (IF spc = "started" THEN 1 + (TotalAcks \div batch) ELSE 0)
        /\ \A m \in Msgs :
              /\ acks[m] <= 1
              /\ acks[m] = hcalls[m] - (IF cur = m THEN 1 ELSE 0)
        /\ (batch = 2 /\ published = 5 /\ TotalAcks = 5) => (pulls = 3 /\ credit = 1)

C10_Witness ==
    /\ chainPolicy = "ok"
    /\ batch = 2
    /\ published = 5
    /\ TotalAcks = 5
    /\ pulls = 3
    /\ credit = 1

\* C11: a fill call with an array made while the queue holds items returns
\* false in its first step, which leaves the queue and the dead-letter store as
\* they were and starts no MULTI; a call that returned false was an array call
\* that read a positive length and appended nothing.
C11_RefusedFillChangesNothing ==
    /\ [](fret = "refused" => (fkind = "array" /\ flen0 > 0 /\ fappended = <<>>))
    /\ [][((\E n \in 1..MaxItems : FillCall(n)) /\ Length > 0)
             => (fret' = "refused" /\ UNCHANGED <<queue, deadLetterHash, fpc, fbatch>>)]_vars

C11_Witness ==
    /\ fret = "refused"
    /\ fkind = "array"
    /\ flen0 > 0
    /\ queue # <<>>
    /\ fpc = "idle"

\* C12 as stated: while or after a fill call runs, the queue has gained either
\* nothing of what was passed to the call or all of it.
C12_FillAtomic ==
    fappended = <<>> \/ fappended = Flatten(fsource)

\* C12: every MULTI of a fill call is applied atomically: what the call has
\* appended so far is always a whole number of its chunks, in order, so an
\* array is appended wholly or not at all, while a streamed call of several
\* chunks can be observed between two chunks.
C12_ChunkAtomic ==
    /\ \E k \in 0..Len(fsource) : fappended = Flatten(SubSeq(fsource, 1, k))
    /\ fkind = "array" => (fappended = <<>> \/ fappended = Flatten(fsource))

C12_Witness ==
    /\ fkind = "stream"
    /\ fpc = "stream"
    /\ Len(fsource) = 2
    /\ fappended = Head(fsource)
    /\ \E l \in Loops : lpc[l] = "backup" /\ ldata[l] = fappended[1]

C14_LengthIsItemsPassed ==
    (wpc = "idle" /\ fpc = "idle") => Length = passed

\* C14: with no worker running, the length of the queue is the number of items
\* passed to the fill calls that returned true, plus what the call in progress
\* has appended; the items of a refused call are not counted.
C14_LengthIsItemsAccepted ==
    wpc = "idle" =>
        Length = accepted + (IF fpc = "idle" THEN 0 ELSE Len(fappended))

C14_Witness ==
    /\ wpc = "idle"
    /\ fpc = "idle"
    /\ fret = "refused"
    /\ accepted = 1
    /\ passed = 3
    /\ Length = 1

\* C15: a requeue call that finds the dead-letter store empty returns false in
\* its first step, which leaves the queue and the store as they were and
\* starts no MULTI.
C15_EmptyRequeueChangesNothing ==
    /\ [](rqret = "nothing" => rqpc = "idle")
    /\ [][(RequeueRead /\ HKeys(deadLetterHash) = {})
             => (rqret' = "nothing" /\ UNCHANGED <<queue, deadLetterHash, rqpc, dead>>)]_vars

C15_Witness ==
    /\ rqret = "nothing"
    /\ HKeys(deadLetterHash) = {}
    /\ queue = <<>>
    /\ \E i \in Items : calls[i] >= 1

\* C16: with a handler that fails with an error other than the Retry Signal,
\* whatever the retry count, no item is handed to the handler a second time,
\* and once the handler has failed for an item a dead-letter record holding the
\* item's payload stays in the store.
C16_ErrorNotRetried ==
    handlerPolicy = "error" =>
        /\ \A l \in Loops : lcalls[l] <= 1
        /\ \A i \in Items :
              /\ calls[i] <= 1
              /\ (calls[i] = 1 /\ \A l \in Loops : ldata[l] # i)
                    => \E k \in Keys : deadLetterHash[k] = i

C16_Witness ==
    /\ handlerPolicy = "error"
    /\ retries >= 1
    /\ AllStopped
    /\ Filled = Items
    /\ \A i \in Items : calls[i] = 1
    /\ Cardinality(HKeys(deadLetterHash)) = Cardinality(Items)

\* C17: with a handler that fails for every item, by the Retry Signal on every
\* attempt or by an error, every item put in the queue before work() started is
\* eventually handed to the handler: neither exhausted retries nor an error
\* ends a drain loop, it goes on to pop what remains.
C17_RemainingItemsHandled ==
    (wpc = "round") ~> (\A i \in Filled : calls[i] >= 1)

C17_Witness ==
    /\ handlerPolicy = "error"
    /\ parallelism = 1
    /\ wpc = "round"
    /\ lpc[<<0, 1>>] = "running"
    /\ lcalls[<<0, 1>>] = 1
    /\ calls[1] = 1
    /\ ldata[<<0, 1>>] = 2
    /\ queue = <<>>

\* C18: when the handler of a popped item has signalled Retry on its first k
\* attempts and then succeeded, k is at most retries, the handler has been
\* invoked exactly k + 1 times, each attempt after a wait of its own, exactly one
\* dead-letter record holds the item's payload (written once, under the loop's
\* key), and the step that follows is the one hdel that removes it: no record
\* of the payload is left.
C18_RetryThenSuccess ==
    /\ [](\A l \in Loops :
             /\ lpc[l] = "call" => lcalls[l] = lattempt[l]
             /\ lpc[l] = "running" => lcalls[l] = lattempt[l] + 1
             /\ (lpc[l] = "hdel" /\ lres[l] = "ok") =>
                   /\ lattempt[l] <= retries
                   /\ lcalls[l] = lattempt[l] + 1
                   /\ {k \in Keys : deadLetterHash[k] = ldata[l]} = {lkey[l]})
    /\ [][\A l \in Loops :
             (lpc[l] = "hdel" /\ lres[l] = "ok" /\ lpc'[l] # "hdel")
             => /\ \A k \in Keys : deadLetterHash'[k] # ldata[l]
                /\ \A k \in Keys \ {lkey[l]} : deadLetterHash'[k] = deadLetterHash[k]]_vars

C18_Witness ==
    /\ retries = 1
    /\ \E l \in Loops :
          /\ lpc[l] = "hdel"
          /\ lres[l] = "ok"
          /\ lattempt[l] = 1
          /\ lcalls[l] = 2
          /\ calls[ldata[l]] = 2

\* C19: when nothing is ever put in the queue, work() polls exactly
\* 1 + JOB_POLL_RETRIES times, with the poll backoff between two rounds, and
\* then returns: no loop gets past its pop, no handler is invoked, the call is
\* never stuck before it has returned, and the per-item retry count plays no
\* part.
C19_EmptyQueueReturns ==
    nextItem = 1 =>
        /\ attempt <= JOB_POLL_RETRIES
        /\ wpc = "backoff" => attempt < JOB_POLL_RETRIES
        /\ wpc = "returned" => attempt + 1 = 1 + JOB_POLL_RETRIES
        /\ \A l \in Loops : lpc[l] \in {"idle", "pop", "stopped"} /\ lcalls[l] = 0
        /\ wpc \in {"round", "backoff"} => ENABLED (WorkPoll \/ \E l \in Loops : LoopPop(l))

C19_Witness ==
    /\ nextItem = 1
    /\ retries = 1
    /\ parallelism = 2
    /\ AllStopped
    /\ attempt = 1
    /\ \A l \in Loops : lpc[l] = "stopped"

\* C20: at any time at most `parallelism` handler invocations started by the
\* work() call are in progress.
C20_AtMostPRunning ==
    Cardinality({l \in Loops : lpc[l] = "running"}) <= parallelism

\* C21: within one subscription the handler is invoked for the deliveries in
\* the order they arrived, one at a time: an invocation starts only when the
\* ack-or-leave decision of every earlier invocation has been made.
C21_SequentialInOrder ==
    /\ Len(hlog) <= Len(dlog)
    /\ hlog = SubSeq(dlog, 1, Len(hlog))
    /\ Len(hlog) - nsettled = (IF rpc = "handling" THEN 1 ELSE 0)
    /\ rpc = "handling" => cur = hlog[Len(hlog)]
    /\ \A j \in 1..Len(hlog) : (j < Len(hlog) \/ rpc # "handling") => last[hlog[j]] # "none"

C21_Witness ==
    /\ rpc = "handling"
    /\ Len(hlog) >= 3
    /\ \E j \in 1..(Len(hlog) - 1) : last[hlog[j]] = "retry"

\* C23: when a stream of the registry does not exist at the broker, start()
\* never reaches its second loop: no subscription is opened and no pull is
\* issued for any topic, and start() does not complete.
C23_MissingStreamFailsStart ==
    (\E i \in 1..Len(streams) : streams[i] \notin upstream) =>
        /\ cpc \in {"init", "check", "failed"}
        /\ \A t \in Topics : opened[t] = 0 /\ tpulls[t] = 0 /\ tcredit[t] = 0

\* start() has failed on the second stream it looked up, the first one exists.
C23_Witness ==
    /\ cpc = "failed"
    /\ ci = 2
    /\ streams[1] \in upstream
    /\ \A t \in Topics : opened[t] = 0

\* C24: every topic gets at most one durable pull subscription and at most
\* one initial pull, of batch messages; once start() has completed, every
\* distinct registered (group, handler) pair has exactly one of each, and no
\* other topic has any.
C24_OneSubscriptionPerPair ==
    \A t \in Topics :
        /\ opened[t] <= 1
        /\ firstPulls[t] = opened[t]
        /\ tcredit[t] = batch * firstPulls[t]
        /\ cpc = "started" =>
              opened[t] = (IF \E i \in 1..Len(handlers) : handlers[i] = t THEN 1 ELSE 0)

\* start() has completed for two handlers registered for the same pair.
C24_Witness ==
    /\ cpc = "started"
    /\ Len(handlers) = 2
    /\ handlers[1] = handlers[2]
    /\ opened[handlers[1]] = 1
    /\ firstPulls[handlers[1]] = 1

\* C22: whatever the handler of another subscription does, also when it never
\* completes, every message published to a subscription whose handler is not
\* hung is delivered, handled and acked.
C22_OtherSubscriptionsProgress ==
    \A t \in Topics : \A k \in 1..MaxPub :
        (t # hung /\ tpub[t] >= k) ~> (tacked[t] >= k)

\* The hung handler is in its invocation with further events waiting, and the
\* other subscription has had all its messages acked.
C22_Witness ==
    /\ trpc[hung] = "handling"
    /\ tinbox[hung] + tpend[hung] >= 1
    /\ \E t \in Topics : t # hung /\ tpub[t] = MaxPub /\ tacked[t] = MaxPub

\* C25: the name durableName returns holds none of the characters '.', '*'
\* and '>', whatever the stream, the namespace and the topic are.
C25_NoReservedCharacter ==
    dpc = "done" => \A i \in 1..Len(dname) : dname[i] \notin Reserved

\* What runs for one message when every middleware calls next.
FullTrace == groupMw \o handlerMw \o <<TheHandler>>

\* C26: when every middleware of the registration calls next, one invocation
\* runs the group middleware in declared order, then the handler middleware
\* in declared order, then the handler, each once.
C26_GroupThenHandlerMiddleware ==
    (\A k \in 1..Len(chain) : chain[k] \in callsNext) =>
        /\ Len(mtrace) <= Len(FullTrace)
        /\ mtrace = SubSeq(FullTrace, 1, Len(mtrace))
        /\ mpc = "done" => mtrace = FullTrace

\* An invocation with two middleware on each level has completed.
C26_Witness ==
    /\ mpc = "done"
    /\ Len(groupMw) = 2
    /\ Len(handlerMw) = 2
    /\ \A k \in 1..Len(chain) : chain[k] \in callsNext
    /\ Len(mtrace) = 5

\* C27: nothing runs after a middleware that returned without calling next:
\* such a middleware is the last entry of the trace, and the handler ran only
\* if every middleware called next.
C27_NoNextStopsChain ==
    /\ \A k \in 1..Len(mtrace) :
          (mtrace[k] # TheHandler /\ mtrace[k] \notin callsNext) =>
              (k = Len(mtrace) /\ mpc = "done")
    /\ (\E k \in 1..Len(mtrace) : mtrace[k] = TheHandler) =>
          \A k \in 1..Len(chain) : chain[k] \in callsNext

\* The second group middleware did not call next: the invocation is over with
\* handler middleware and handler not run.
C27_Witness ==
    /\ mpc = "done"
    /\ Len(groupMw) = 2
    /\ Len(handlerMw) >= 1
    /\ groupMw[1] \in callsNext
    /\ groupMw[2] \notin callsNext
    /\ mtrace = groupMw

\* With a logger as without, the loop goes on from a settled invocation as the
\* outcome of f itself decides.
LoggerKeepsOutcomes ==
    [][(\E l \in Loops : lpc[l] = "running" /\ lpc'[l] # "running") =>
          \E l \in Loops : LoopSettle(l, raw')]_vars

\* C28: a logger changes nothing of the delivery: every invocation hands f the
\* payload it would be handed with the other choice of logger, and after every
\* invocation the queue, the dead-letter store and the retries go on as the
\* outcome of f itself decides.
C28_LoggerChangesNothing ==
    /\ [][\A l \in Loops : (lpc[l] = "call" /\ lpc'[l] = "running") =>
              given' = Decoded(~logger, ldata[l])]_vars
    /\ LoggerKeepsOutcomes

\* C29: every error other than the Retry Signal that the drain loop has
\* absorbed was logged with its payload, with a logger and without.
C29_EveryErrorLogged == nerr = nerrlog

\* C30: the connection is released only when no handler invocation is in
\* flight, and no pull is issued on any subscription once the consumer was
\* ended.
C30_CleanShutdown ==
    /\ [](conn = "closed" => \A t \in Topics : trpc[t] # "handling")
    /\ [][conn = "closed" => tpulls' = tpulls]_vars

\* The latest call was queue or getOptions.
Resolving == acall[1] \in {"queue", "getOptions"}

\* What queue produces for a URL, and what getOptions does.
Uses(u) ==
    IF acall[1] = "queue" THEN ares = Built("module", u, Undefined)
    ELSE ares[1] = "options" /\ ares[2] = u

Kept(i) ==
    \/ fpc = "push" /\ \E k \in 1..Len(fbatch) : fbatch[k] = i
    \/ \E k \in 1..Len(queue) : queue[k] = i
    \/ \E l \in Loops : ldata[l] = i /\ lpc[l] \in {"backup", "call", "running", "hdel"}
    \/ \E k \in Keys : deadLetterHash[k] = i
    \/ \E k \in 1..Len(dead) : dead[k] = i

\* C32: no item is lost.  Stated for a handler that fails every invocation with
\* an error other than the Retry Signal, so that no item ever has a successful
\* invocation: every item passed to fill is kept somewhere at every moment.
C32_NoItemLost ==
    handlerPolicy = "error" => \A i \in Filled : Kept(i)

\* C33: an item whose handler is running in a drain loop is not in the queue
\* again, and no two drain loops are in the handler of the same item at once.
C33_RunningNotRequeued ==
    /\ \A l \in Loops :
          lpc[l] = "running" => ~(\E k \in 1..Len(queue) : queue[k] = ldata[l])
    /\ \A l1, l2 \in Loops :
          (l1 # l2 /\ lpc[l1] = "running" /\ lpc[l2] = "running") => ldata[l1] # ldata[l2]

\* C34: once a work() call with parallelism above 1 has returned, none of its
\* drain loops is still popping, writing a record, or in a handler.
C34_ReturnedMeansStopped ==
    (wpc = "returned" /\ parallelism > 1) =>
        \A l \in Loops : lpc[l] \in {"idle", "stopped"}

\* Deliveries whose handling has not finished: waiting in the subscription or
\* in the handler chain.
Unfinished == Len(inbox) + (IF rpc = "handling" THEN 1 ELSE 0)

\* C35: the credit of the subscription is conserved: the messages requested and
\* not delivered yet, the deliveries not finished yet and the pull-window
\* counter add up to batch_size, and the counter stays below batch_size.
C35_CreditConserved ==
    spc = "started" =>
        /\ credit + Unfinished + count = batch
        /\ count \in 0..(batch - 1)

\* C36: the MULTI of a fill call with an array appends to an empty queue only:
\* of two such calls on an empty queue at most one appends.
C36_AppendOnlyToEmpty ==
    [][((fpc = "push" /\ fpc' = "idle") \/ (gpc = "push" /\ gpc' = "idle"))
          => queue = <<>>]_vars

\* C37: for the stream and the namespace of the call, no other topic is given
\* the name this topic was given.
C37_InjectiveOnSubjects ==
    dpc = "done" =>
        \A t \in Strings(MaxTopicLen) :
            t # dtopic => durableName(dstream, dnamespace, t) # dname

\* The invocation of the chain ended at a middleware: the handler did not run.
ShortCircuited == mpc = "done" /\ \A k \in 1..Len(mtrace) : mtrace[k] # TheHandler

\* C38: a message whose chain ended at a middleware that returned without
\* calling next is acknowledged and counted by done() in the step that ends its
\* handling, as a handled message is; from then on it is acknowledged, was
\* delivered, passed to the subscriber and acknowledged once, and waits for no
\* redelivery; with such a middleware in the chain no message is delivered or
\* acknowledged twice and the handler never runs.
C38_ShortCircuitIsSuccess ==
    /\ [][(rpc = "handling" /\ rpc' = "await" /\ ShortCircuited) =>
             /\ bstate'[cur] = "acked"
             /\ acks'[cur] = acks[cur] + 1
             /\ IF count + 1 = batch
                  THEN count' = 0 /\ pulls' = pulls + 1 /\ credit' = credit + batch
                  ELSE count' = count + 1 /\ pulls' = pulls]_vars
    /\ [](\A m \in Msgs :
            (mevent[1] = m /\ ShortCircuited /\ cur # m) =>
                /\ bstate[m] = "acked"
                /\ acks[m] = 1
                /\ delivs[m] = 1
                /\ hcalls[m] = 1
                /\ ~InInbox(m))
    /\ []((\E k \in 1..Len(chain) : chain[k] \notin callsNext) =>
            /\ \A k \in 1..Len(mtrace) : mtrace[k] # TheHandler
            /\ \A m \in Msgs :
                  /\ delivs[m] <= 1
                  /\ acks[m] <= 1
                  /\ last[m] # "none" => (bstate[m] = "acked" /\ acks[m] = 1))

\* Two messages ended at the second middleware of the chain; with a batch of 2
\* the second of them caused the next pull.
C38_Witness ==
    /\ ShortCircuited
    /\ Len(mtrace) = 2
    /\ Len(chain) > 2
    /\ rpc = "await"
    /\ mevent = <<2, 1>>
    /\ acks[1] = 1
    /\ acks[2] = 1
    /\ batch = 2
    /\ count = 0
    /\ pulls = 2

\* C39: a handler that was called is the last one parsed for its pair, so of
\* two handlers parsed for one pair the earlier one is never called, however
\* many messages the pair receives; the pair has one subscription, and after
\* start() exactly one.
C39_LastParsedIsBound ==
    /\ \A i \in invoked :
          /\ i \in 1..Len(handlers)
          /\ \A j \in 1..Len(handlers) : handlers[j] = handlers[i] => j <= i
    /\ \A i, j \in 1..Len(handlers) :
          (i < j /\ handlers[i] = handlers[j]) =>
              /\ i \notin invoked
              /\ opened[handlers[i]] <= 1
              /\ cpc = "started" => opened[handlers[i]] = 1
              /\ tacked[handlers[i]] > 0 =>
                    \E k \in invoked : k >= j /\ handlers[k] = handlers[i]

\* Two handlers were parsed for one pair; both messages published to it were
\* handled by the second.
C39_Witness ==
    /\ Len(handlers) = 2
    /\ handlers[1] = handlers[2]
    /\ tpub[handlers[1]] = MaxPub
    /\ tacked[handlers[1]] = MaxPub
    /\ invoked = {2}

\* No class was decorated between the construction of object k - 1 (or the
\* start of the process) and that of object k.
NothingDeclaredFor(k) == \A c \in Classes : decl[c] = None \/ decl[c][1][3] # k - 1

\* C40: an object constructed without a class decorated since the previous
\* construction got the empty list and has no streams and no subscribers, the
\* second one after the first in particular; a construction leaves the group
\* list and the method lists of the classes in it undefined, and leaves the
\* list, the streams and the subscribers of every earlier object as they were.
C40_ParsingConsumesMetadata ==
    /\ [](\A k \in 1..built :
            NothingDeclaredFor(k) =>
                /\ ihandlers[k] = <<>>
                /\ istreams[k] = <<>>
                /\ isubscribers[k] = <<>>)
    /\ []((built > 0 /\ NothingDeclaredFor(built + 1)) =>
            /\ groupMeta = None
            /\ \A c \in Classes : methodMeta[c] = None)
    /\ [][\A k \in 1..built :
            /\ ihandlers'[k] = ihandlers[k]
            /\ istreams'[k] = istreams[k]
            /\ isubscribers'[k] = isubscribers[k]]_vars

\* Two classes with three handlers between them were decorated, then two
\* objects constructed: the first has the three handlers, the second none.
C40_Witness ==
    /\ built = 2
    /\ \A c \in Classes : decl[c] # None /\ decl[c][1][3] = 0
    /\ Len(ihandlers[1]) = 3
    /\ istreams[1] # <<>>
    /\ ihandlers[2] = <<>>
    /\ isubscribers[2] = <<>>

====
